---- MODULE Spec2Model ----
(***************************************************************************)
(* A model of the HOS trip scheduler of htusse/eld-backend:                *)
(*   src/trips/hos_rules.py   the HOS state and its transitions            *)
(*   src/trips/scheduler.py   create_trip_schedule and its stop helpers,   *)
(*                            get_schedule_by_day, calculate_daily_totals  *)
(*   src/trips/views.py       plan_trip, which validates the request,      *)
(*                            parses its locations and asks for the route  *)
(*                            before it calls create_trip_schedule         *)
(*                                                                         *)
(* Specifications.  Spec: create_trip_schedule on the calls the API makes  *)
(* possible; SpecAnyInput: on any arguments; SpecPlanTrip: plan_trip from  *)
(* the request on; SpecHOS: the transitions of hos_rules called on their   *)
(* own, in any order; SpecByDay: get_schedule_by_day on events that begin  *)
(* and end around midnight; SpecLive: create_trip_schedule followed to the *)
(* end of its runs, on fewer legs.                                         *)
(*                                                                         *)
(* Numbers.  The program computes with Python floats (miles, hours) and    *)
(* with datetime values (event times).  The model keeps the two apart, as  *)
(* the program does:                                                       *)
(*   - miles are counted in units of 1/MILE mile;                          *)
(*   - float hours are counted in units of 1/HOUR hour, with               *)
(*     HOUR = AVG_SPEED_MPH * MILE, so that the time to drive one distance *)
(*     unit is one hour unit and miles / AVG_SPEED_MPH is exact;           *)
(*   - datetime values are counted in ticks of TICK hour units.  A tick    *)
(*     stands for datetime's resolution (one microsecond in Python): the   *)
(*     conversion timedelta(hours = h) rounds h to a whole number of       *)
(*     ticks, half to even, as Python's timedelta does.  The tick is       *)
(*     scaled up so that the values fit, the rounding is kept.             *)
(* Float rounding of the hour and mile arithmetic itself is not modelled:  *)
(* hour and mile arithmetic is exact, but for the one comparison whose     *)
(* outcome the rounding decides (float_less_after_sum), which is a choice. *)
(***************************************************************************)
EXTENDS Integers, Sequences, FiniteSets, TLC

(***************************************************************************)
(* Units                                                                   *)
(***************************************************************************)
\* distance units per mile (Leg.distance_miles is a float number of miles)
MILE == 8

\* hos_rules.py:28
AVG_SPEED_MPH == 55

\* float-hour units per hour
HOUR == AVG_SPEED_MPH * MILE

\* hour units per datetime tick (datetime.resolution)
TICK == 4

(***************************************************************************)
(* hos_rules.py:15-27, the constants                                       *)
(***************************************************************************)
MAX_DRIVING_HOURS == 11 * HOUR
MAX_DUTY_WINDOW_HOURS == 14 * HOUR
BREAK_REQUIRED_AFTER_HOURS == 8 * HOUR
BREAK_DURATION_MINUTES == 30
OFF_DUTY_RESET_HOURS == 10 * HOUR
CYCLE_LIMIT_HOURS == 70 * HOUR
FUEL_STOP_INTERVAL_MILES == 1000 * MILE
FUEL_STOP_DURATION_MINUTES == 30
PICKUP_DURATION_MINUTES == 60
DROPOFF_DURATION_MINUTES == 60

(***************************************************************************)
(* Bounds of the model                                                     *)
(***************************************************************************)
\* leg distances are drawn from a grid of LegStepMiles miles, 0..MaxLegSteps steps
MaxLegSteps == 20

\* the zero-segment branch is not taken once the schedule holds this many events
MaxEvents == 28

(***************************************************************************)
(* Arithmetic of the program                                               *)
(***************************************************************************)
Max(a, b) == IF a >= b THEN a ELSE b

Min(a, b) == IF a <= b THEN a ELSE b

\* round n / d to the nearest integer, ties to the even one (n >= 0, d > 0)
RoundHalfEven(n, d) ==
    LET q == n \div d
        r == n % d
    IN  IF 2 * r < d THEN q
        ELSE IF 2 * r > d THEN q + 1
        ELSE IF q % 2 = 0 THEN q ELSE q + 1

\* timedelta(hours = h): a float number of hours as datetime ticks
timedelta_hours(h) == RoundHalfEven(h, TICK)

\* timedelta(minutes = m): a whole number of minutes as datetime ticks
timedelta_minutes(m) == RoundHalfEven((m * HOUR) \div 60, TICK)

\* x / 60 for a number of minutes x: minutes as float hours
MinutesToHours(m) == (m * HOUR) \div 60

\* miles / AVG_SPEED_MPH: miles as float hours
MilesToHours(miles) == (miles * HOUR) \div (AVG_SPEED_MPH * MILE)

\* hours * AVG_SPEED_MPH: float hours as miles
HoursToMiles(hours) == (hours * AVG_SPEED_MPH * MILE) \div HOUR

(***************************************************************************)
(* hos_rules.py: HOSState                                                  *)
(***************************************************************************)
HOSState(driving, on_duty, window, since_break, cycle, active) ==
    [driving_hours_in_shift |-> driving,
     on_duty_hours_in_shift |-> on_duty,
     duty_window_hours |-> window,
     driving_since_last_break |-> since_break,
     cycle_hours_used |-> cycle,
     shift_active |-> active]

\* mutant: the driving cap taken from the duty window's constant
driving_hours_remaining_window_cap(s) ==
    Max(0, MAX_DUTY_WINDOW_HOURS - s.driving_hours_in_shift)

driving_hours_remaining(s) == Max(0, MAX_DRIVING_HOURS - s.driving_hours_in_shift)

duty_window_remaining(s) == Max(0, MAX_DUTY_WINDOW_HOURS - s.duty_window_hours)

\* mutant: the cycle budget computed from the shift's on-duty hours
cycle_hours_remaining_of_shift(s) ==
    Max(0, CYCLE_LIMIT_HOURS - s.on_duty_hours_in_shift)

cycle_hours_remaining(s) == Max(0, CYCLE_LIMIT_HOURS - s.cycle_hours_used)

\* mutant: the break threshold taken from the driving cap's constant
hours_until_break_required_driving_cap(s) ==
    Max(0, MAX_DRIVING_HOURS - s.driving_since_last_break)

hours_until_break_required(s) ==
    Max(0, BREAK_REQUIRED_AFTER_HOURS - s.driving_since_last_break)

needs_30_min_break(s) == s.driving_since_last_break >= BREAK_REQUIRED_AFTER_HOURS

\* mutant: the break requirement is left out of the test
can_drive_break_ignored(s) ==
    /\ driving_hours_remaining(s) > 0
    /\ duty_window_remaining(s) > 0
    /\ cycle_hours_remaining(s) > 0

can_drive(s) ==
    /\ driving_hours_remaining(s) > 0
    /\ duty_window_remaining(s) > 0
    /\ cycle_hours_remaining(s) > 0
    /\ ~needs_30_min_break(s)

\* mutant: the break requirement is left out of the limits
get_max_continuous_driving_hours_break_ignored(s) ==
    Max(0, Min(Min(driving_hours_remaining(s), duty_window_remaining(s)),
               cycle_hours_remaining(s)))

\* mutant: the cycle's budget is left out of the limits
get_max_continuous_driving_hours_cycle_ignored(s) ==
    Max(0, Min(Min(driving_hours_remaining(s), duty_window_remaining(s)),
               hours_until_break_required(s)))

get_max_continuous_driving_hours(s) ==
    Max(0, Min(Min(driving_hours_remaining(s), duty_window_remaining(s)),
               Min(cycle_hours_remaining(s), hours_until_break_required(s))))

start_new_shift(s) == HOSState(0, 0, 0, 0, s.cycle_hours_used, TRUE)

\* mutant: the segment's hours are not added to the shift's driving hours
add_driving_time_shift_uncounted(state, hours) ==
    LET s == IF ~state.shift_active THEN start_new_shift(state) ELSE state
    IN  HOSState(s.driving_hours_in_shift,
                 s.on_duty_hours_in_shift + hours,
                 s.duty_window_hours + hours,
                 s.driving_since_last_break + hours,
                 s.cycle_hours_used + hours,
                 TRUE)

\* mutant: the hours are not added to the hours driven in the shift
add_driving_time_shift_hours_uncounted(state, hours) ==
    LET s == IF ~state.shift_active THEN start_new_shift(state) ELSE state
    IN  HOSState(s.driving_hours_in_shift,
                 s.on_duty_hours_in_shift + hours,
                 s.duty_window_hours + hours,
                 s.driving_since_last_break + hours,
                 s.cycle_hours_used + hours,
                 TRUE)

\* mutant: the hours are not added to the hours driven since the last break
add_driving_time_break_uncounted(state, hours) ==
    LET s == IF ~state.shift_active THEN start_new_shift(state) ELSE state
    IN  HOSState(s.driving_hours_in_shift + hours,
                 s.on_duty_hours_in_shift + hours,
                 s.duty_window_hours + hours,
                 s.driving_since_last_break,
                 s.cycle_hours_used + hours,
                 TRUE)

add_driving_time(state, hours) ==
    LET s == IF ~state.shift_active THEN start_new_shift(state) ELSE state
    IN  HOSState(s.driving_hours_in_shift + hours,
                 s.on_duty_hours_in_shift + hours,
                 s.duty_window_hours + hours,
                 s.driving_since_last_break + hours,
                 s.cycle_hours_used + hours,
                 TRUE)

\* mutant: no stop counts as a break
add_on_duty_time_never_a_break(state, hours, counts_as_break) ==
    LET s == IF ~state.shift_active THEN start_new_shift(state) ELSE state
    IN  HOSState(s.driving_hours_in_shift,
                 s.on_duty_hours_in_shift + hours,
                 s.duty_window_hours + hours,
                 s.driving_since_last_break,
                 s.cycle_hours_used + hours,
                 TRUE)

\* mutant: a stop that counts as a break resets the hours driven since the
\* last break whatever its length
add_on_duty_time_break_of_any_length(state, hours, counts_as_break) ==
    LET s == IF ~state.shift_active THEN start_new_shift(state) ELSE state
    IN  HOSState(s.driving_hours_in_shift,
                 s.on_duty_hours_in_shift + hours,
                 s.duty_window_hours + hours,
                 IF counts_as_break THEN 0 ELSE s.driving_since_last_break,
                 s.cycle_hours_used + hours,
                 TRUE)

\* mutant: no shift is started when the state has none
add_on_duty_time_shift_not_started(state, hours, counts_as_break) ==
    HOSState(state.driving_hours_in_shift,
             state.on_duty_hours_in_shift + hours,
             state.duty_window_hours + hours,
             IF counts_as_break /\ hours >= MinutesToHours(BREAK_DURATION_MINUTES)
             THEN 0 ELSE state.driving_since_last_break,
             state.cycle_hours_used + hours,
             TRUE)

\* mutant: on-duty time is not added to the cycle
add_on_duty_time_cycle_uncounted(state, hours, counts_as_break) ==
    LET s == IF ~state.shift_active THEN start_new_shift(state) ELSE state
    IN  HOSState(s.driving_hours_in_shift,
                 s.on_duty_hours_in_shift + hours,
                 s.duty_window_hours + hours,
                 IF counts_as_break /\ hours >= MinutesToHours(BREAK_DURATION_MINUTES)
                 THEN 0 ELSE s.driving_since_last_break,
                 s.cycle_hours_used,
                 TRUE)

add_on_duty_time(state, hours, counts_as_break) ==
    LET s == IF ~state.shift_active THEN start_new_shift(state) ELSE state
        new_driving_since_break ==
            IF counts_as_break /\ hours >= MinutesToHours(BREAK_DURATION_MINUTES)
            THEN 0 ELSE s.driving_since_last_break
    IN  HOSState(s.driving_hours_in_shift,
                 s.on_duty_hours_in_shift + hours,
                 s.duty_window_hours + hours,
                 new_driving_since_break,
                 s.cycle_hours_used + hours,
                 TRUE)

\* mutant: a reset clears the cycle as well
add_off_duty_time_cycle_reset(state, hours) ==
    IF hours >= OFF_DUTY_RESET_HOURS
    THEN HOSState(0, 0, 0, 0, 0, FALSE)
    ELSE HOSState(state.driving_hours_in_shift,
                  state.on_duty_hours_in_shift,
                  state.duty_window_hours + hours,
                  0,
                  state.cycle_hours_used,
                  state.shift_active)

\* mutant: a short off-duty period does not count against the duty window
add_off_duty_time_window_kept(state, hours) ==
    IF hours >= OFF_DUTY_RESET_HOURS
    THEN HOSState(0, 0, 0, 0, state.cycle_hours_used, FALSE)
    ELSE HOSState(state.driving_hours_in_shift,
                  state.on_duty_hours_in_shift,
                  state.duty_window_hours,
                  0,
                  state.cycle_hours_used,
                  state.shift_active)

\* mutant: off-duty time of 10 hours resets no more than a shorter one
add_off_duty_time_never_resets(state, hours) ==
    HOSState(state.driving_hours_in_shift,
             state.on_duty_hours_in_shift,
             state.duty_window_hours + hours,
             0,
             state.cycle_hours_used,
             state.shift_active)

add_off_duty_time(state, hours) ==
    IF hours >= OFF_DUTY_RESET_HOURS
    THEN HOSState(0, 0, 0, 0, state.cycle_hours_used, FALSE)
    ELSE HOSState(state.driving_hours_in_shift,
                  state.on_duty_hours_in_shift,
                  state.duty_window_hours + hours,
                  0,
                  state.cycle_hours_used,
                  state.shift_active)

(***************************************************************************)
(* scheduler.py: the records                                               *)
(***************************************************************************)
ScheduleEvent(start_time, end_time, status, note, location, miles_start, miles_end) ==
    [start_time |-> start_time,
     end_time |-> end_time,
     status |-> status,
     note |-> note,
     location |-> location,
     miles_start |-> miles_start,
     miles_end |-> miles_end]

\* ScheduleEvent.duration_hours: the event's length as float hours
duration_hours(e) == (e.end_time - e.start_time) * TICK

Stop(stop_type, duration_minutes, location, mile_marker, reason) ==
    [stop_type |-> stop_type,
     duration_minutes |-> duration_minutes,
     location |-> location,
     mile_marker |-> mile_marker,
     reason |-> reason]

TripSchedule(start_time) ==
    [events |-> << >>,
     stops |-> << >>,
     total_driving_hours |-> 0,
     total_on_duty_hours |-> 0,
     total_off_duty_hours |-> 0,
     total_miles |-> 0,
     start_time |-> start_time,
     end_time |-> -1]

\* what a stop helper hands back: the schedule it appended to, and its
\* return value (end_time, hos_state)
Added(schedule, end_time, hos) ==
    [schedule |-> schedule, current_time |-> end_time, hos_state |-> hos]

(***************************************************************************)
(* scheduler.py: the stop helpers                                          *)
(***************************************************************************)
\* mutant: the pickup's event is appended without its stop
_add_pickup_stop_unlisted(schedule, current_time, hos, current_miles, location) ==
    LET dur_hours == MinutesToHours(PICKUP_DURATION_MINUTES)
        end_time == current_time + timedelta_minutes(PICKUP_DURATION_MINUTES)
    IN  Added([schedule EXCEPT
                 !.events = Append(@, ScheduleEvent(current_time, end_time,
                               "ON_DUTY_NOT_DRIVING", "Pickup - Loading", location,
                               current_miles, current_miles)),
                 !.total_on_duty_hours = @ + dur_hours],
              end_time,
              add_on_duty_time(hos, dur_hours, TRUE))

_add_pickup_stop(schedule, current_time, hos, current_miles, location) ==
    LET dur_hours == MinutesToHours(PICKUP_DURATION_MINUTES)
        end_time == current_time + timedelta_minutes(PICKUP_DURATION_MINUTES)
    IN  Added([schedule EXCEPT
                 !.events = Append(@, ScheduleEvent(current_time, end_time,
                               "ON_DUTY_NOT_DRIVING", "Pickup - Loading", location,
                               current_miles, current_miles)),
                 !.stops = Append(@, Stop("PICKUP", PICKUP_DURATION_MINUTES, location,
                               current_miles, "Loading cargo")),
                 !.total_on_duty_hours = @ + dur_hours],
              end_time,
              add_on_duty_time(hos, dur_hours, TRUE))

_add_dropoff_stop(schedule, current_time, hos, current_miles, location) ==
    LET dur_hours == MinutesToHours(DROPOFF_DURATION_MINUTES)
        end_time == current_time + timedelta_minutes(DROPOFF_DURATION_MINUTES)
    IN  Added([schedule EXCEPT
                 !.events = Append(@, ScheduleEvent(current_time, end_time,
                               "ON_DUTY_NOT_DRIVING", "Dropoff - Unloading", location,
                               current_miles, current_miles)),
                 !.stops = Append(@, Stop("DROPOFF", DROPOFF_DURATION_MINUTES, location,
                               current_miles, "Unloading cargo")),
                 !.total_on_duty_hours = @ + dur_hours],
              end_time,
              add_on_duty_time(hos, dur_hours, TRUE))

\* mutant: the fuel stop's event is appended without its Stop
_add_fuel_stop_unlisted(schedule, current_time, hos, current_miles, location_note) ==
    LET dur_hours == MinutesToHours(FUEL_STOP_DURATION_MINUTES)
        end_time == current_time + timedelta_minutes(FUEL_STOP_DURATION_MINUTES)
    IN  Added([schedule EXCEPT
                 !.events = Append(@, ScheduleEvent(current_time, end_time,
                               "ON_DUTY_NOT_DRIVING", "Fuel Stop", location_note,
                               current_miles, current_miles)),
                 !.total_on_duty_hours = @ + dur_hours],
              end_time,
              add_on_duty_time(hos, dur_hours, TRUE))

_add_fuel_stop(schedule, current_time, hos, current_miles, location_note) ==
    LET dur_hours == MinutesToHours(FUEL_STOP_DURATION_MINUTES)
        end_time == current_time + timedelta_minutes(FUEL_STOP_DURATION_MINUTES)
    IN  Added([schedule EXCEPT
                 !.events = Append(@, ScheduleEvent(current_time, end_time,
                               "ON_DUTY_NOT_DRIVING", "Fuel Stop", location_note,
                               current_miles, current_miles)),
                 !.stops = Append(@, Stop("FUEL", FUEL_STOP_DURATION_MINUTES,
                               location_note, current_miles, "Refueling")),
                 !.total_on_duty_hours = @ + dur_hours],
              end_time,
              add_on_duty_time(hos, dur_hours, TRUE))

\* mutant: the break is not added to total_off_duty_hours
_add_rest_break_untotalled(schedule, current_time, hos, current_miles, location_note) ==
    LET dur_hours == MinutesToHours(BREAK_DURATION_MINUTES)
        end_time == current_time + timedelta_minutes(BREAK_DURATION_MINUTES)
    IN  Added([schedule EXCEPT
                 !.events = Append(@, ScheduleEvent(current_time, end_time,
                               "OFF_DUTY", "30-min Rest Break (8hr rule)", location_note,
                               current_miles, current_miles)),
                 !.stops = Append(@, Stop("REST_BREAK", BREAK_DURATION_MINUTES,
                               location_note, current_miles,
                               "Required 30-minute break after 8 hours driving"))],
              end_time,
              add_off_duty_time(hos, dur_hours))

_add_rest_break(schedule, current_time, hos, current_miles, location_note) ==
    LET dur_hours == MinutesToHours(BREAK_DURATION_MINUTES)
        end_time == current_time + timedelta_minutes(BREAK_DURATION_MINUTES)
    IN  Added([schedule EXCEPT
                 !.events = Append(@, ScheduleEvent(current_time, end_time,
                               "OFF_DUTY", "30-min Rest Break (8hr rule)", location_note,
                               current_miles, current_miles)),
                 !.stops = Append(@, Stop("REST_BREAK", BREAK_DURATION_MINUTES,
                               location_note, current_miles,
                               "Required 30-minute break after 8 hours driving")),
                 !.total_off_duty_hours = @ + dur_hours],
              end_time,
              add_off_duty_time(hos, dur_hours))

\* mutant: the reset hands back the time it began at, not the time it ends at
_add_off_duty_reset_time_kept(schedule, current_time, hos, current_miles, location_note) ==
    LET dur_hours == OFF_DUTY_RESET_HOURS
        end_time == current_time + timedelta_hours(dur_hours)
    IN  Added([schedule EXCEPT
                 !.events = Append(@, ScheduleEvent(current_time, end_time,
                               "OFF_DUTY", "10-hr Off Duty (Shift Reset)", location_note,
                               current_miles, current_miles)),
                 !.stops = Append(@, Stop("OFF_DUTY", (dur_hours * 60) \div HOUR,
                               location_note, current_miles,
                               "Required 10-hour off-duty period to reset driving limits")),
                 !.total_off_duty_hours = @ + dur_hours],
              current_time,
              add_off_duty_time(hos, dur_hours))

_add_off_duty_reset(schedule, current_time, hos, current_miles, location_note) ==
    LET dur_hours == OFF_DUTY_RESET_HOURS
        end_time == current_time + timedelta_hours(dur_hours)
    IN  Added([schedule EXCEPT
                 !.events = Append(@, ScheduleEvent(current_time, end_time,
                               "OFF_DUTY", "10-hr Off Duty (Shift Reset)", location_note,
                               current_miles, current_miles)),
                 !.stops = Append(@, Stop("OFF_DUTY", (dur_hours * 60) \div HOUR,
                               location_note, current_miles,
                               "Required 10-hour off-duty period to reset driving limits")),
                 !.total_off_duty_hours = @ + dur_hours],
              end_time,
              add_off_duty_time(hos, dur_hours))

(***************************************************************************)
(* The inputs of a run                                                     *)
(***************************************************************************)
\* the grid of the leg distances, in miles
LegStepMiles == 55

\* Leg.distance_miles of a leg: 0, distances shorter than a tick of driving,
\* the distances of the documented scenarios, a pair (3010, 15) whose last
\* shift holds 11 hours of driving and every kind of stop, and the grid
LegChoices ==
    {1, 3, 15 * MILE, 50 * MILE, 163 * MILE, 500 * MILE, 1000 * MILE,
     3010 * MILE}
        \cup {k * LegStepMiles * MILE : k \in 0 .. MaxLegSteps}

\* cycle_used_hours, within the serializer's range [0, 70]
CycleChoices == {0, 30 * HOUR, 69 * HOUR + HOUR \div 2, 70 * HOUR}

\* start_time: 08:00 of day 0, in ticks since midnight of day 0
StartChoices == {(8 * HOUR) \div TICK}

\* the argument start_time left out: its default None (102)
NoStartTime == 0 - 1

\* datetime.now() at a call that has no start_time: 07:30 and 08:30 of day 0
NowChoices == {(15 * HOUR) \div (2 * TICK), (17 * HOUR) \div (2 * TICK)}

\* 120: the clock cut to the hour, plus one hour
default_start_time(now) ==
    LET ticks_per_hour == HOUR \div TICK
    IN  (now \div ticks_per_hour) * ticks_per_hour + timedelta_hours(HOUR)

\* mutant: the clock is read although a start_time was given
initial_start_time_from_clock(start_time_arg, now) == default_start_time(now)

\* 119-120
initial_start_time(start_time_arg, now) ==
    IF start_time_arg = NoStartTime THEN default_start_time(now) ELSE start_time_arg

\* no request is being served: create_trip_schedule is called directly
NoRequest == [at |-> "none"]

\* no function of hos_rules was called on its own
NoCall == [op |-> "none", calls |-> 0]

(***************************************************************************)
(* The state of a run of create_trip_schedule                              *)
(***************************************************************************)
VARIABLES
    legs,              \* route.legs: the distances of the legs
    cycle_used_hours,  \* the argument cycle_used_hours
    start_time,        \* the argument start_time, NoStartTime when left out
    pc,                \* "loop": at the while test of leg leg_index;
                       \* "return": after the for loop; "done": returned;
                       \* "raised": left by an exception
    leg_index,         \* the for loop's index, 1 or 2
    miles_to_drive,
    leg_miles_driven,
    current_time,
    current_miles,
    hos_state,
    schedule,
    twin,              \* the locals of a second call with the same arguments
    by_day,            \* the result of get_schedule_by_day, once it was called
    view,              \* the request plan_trip serves, the calls it made and
                       \* its response; NoRequest when the scheduler is called
                       \* directly
    hos_call           \* the last call of a function of hos_rules made on its
                       \* own: its arguments and its result; NoCall without one

vars == <<legs, cycle_used_hours, start_time, pc, leg_index, miles_to_drive,
          leg_miles_driven, current_time, current_miles, hos_state, schedule, twin,
          by_day, view, hos_call>>

\* the locals of a call
CallState(at, index, to_drive, driven, time, miles, hos, sched) ==
    [pc |-> at,
     leg_index |-> index,
     miles_to_drive |-> to_drive,
     leg_miles_driven |-> driven,
     current_time |-> time,
     current_miles |-> miles,
     hos_state |-> hos,
     schedule |-> sched]

\* scheduler.py:118-146 and the entry of the first leg (148-154); building
\* legs_data reads route.legs[1] (140) and raises IndexError when it is missing
begin_call(route_legs, cycle, start) ==
    CallState(IF Len(route_legs) < 2 THEN "raised" ELSE "loop",
              1, route_legs[1], 0, start, 0,
              start_new_shift(HOSState(0, 0, 0, 0, cycle, FALSE)),
              TripSchedule(start))

\* two calls with the same arguments, each reading the clock for itself
InitOf(leg_lists, cycles, starts) ==
    /\ legs \in leg_lists
    /\ cycle_used_hours \in cycles
    /\ start_time \in starts
    /\ \E now \in NowChoices :
          LET c == begin_call(legs, cycle_used_hours,
                              initial_start_time(start_time, now))
          IN  /\ pc = c.pc
              /\ leg_index = c.leg_index
              /\ miles_to_drive = c.miles_to_drive
              /\ leg_miles_driven = c.leg_miles_driven
              /\ current_time = c.current_time
              /\ current_miles = c.current_miles
              /\ hos_state = c.hos_state
              /\ schedule = c.schedule
    /\ \E now \in NowChoices :
          twin = begin_call(legs, cycle_used_hours,
                            initial_start_time(start_time, now))
    /\ by_day = << >>
    /\ view = NoRequest
    /\ hos_call = NoCall

\* the calls the API makes possible: two legs, a cycle within [0, 70]
Init == InitOf(LegChoices \X LegChoices, CycleChoices, StartChoices)

(***************************************************************************)
(* scheduler.py:156-237, one iteration of the drive loop                   *)
(***************************************************************************)
\* 158-162
miles_to_next_fuel(miles) ==
    LET miles_since_last_fuel == miles % FUEL_STOP_INTERVAL_MILES
        to_next == FUEL_STOP_INTERVAL_MILES - miles_since_last_fuel
    IN  IF to_next <= 0 THEN FUEL_STOP_INTERVAL_MILES ELSE to_next

\* mutant: the segment is not cut at the next fuel boundary
miles_this_segment_fuel_ignored(to_drive, hos, miles) ==
    Min(to_drive, HoursToMiles(get_max_continuous_driving_hours(hos)))

\* 165-169
miles_this_segment(to_drive, hos, miles) ==
    LET max_driving_hours == get_max_continuous_driving_hours(hos)
        max_miles_hos == HoursToMiles(max_driving_hours)
    IN  Min(to_drive, Min(max_miles_hos, miles_to_next_fuel(miles)))

\* whether a float number of hours is a binary fraction of an hour (k / MILE
\* hours, MILE being a power of two), so that its product with
\* AVG_SPEED_MPH is exact; hours that are not are rounded, and so is the product
exact_hours(hours) == hours % (HOUR \div MILE) = 0

\* 219, the float comparison current_miles % FUEL_STOP_INTERVAL_MILES <
\* miles_this_segment after current_miles += miles_this_segment.  A segment that
\* started on a boundary has both sides equal in exact arithmetic.  They are the
\* same float when the segment started at mile 0 (0 + x is x) or is exact;
\* otherwise the sum is rounded to the precision of the larger current_miles and
\* the comparison holds when the rounding went down: rounds_down is that outcome.
float_less_after_sum(miles, segment, max_driving_hours, rounds_down) ==
    \/ miles % FUEL_STOP_INTERVAL_MILES < segment
    \/ /\ miles % FUEL_STOP_INTERVAL_MILES = segment
       /\ miles > segment
       /\ segment = HoursToMiles(max_driving_hours)
       /\ ~exact_hours(max_driving_hours)
       /\ rounds_down

\* 219: the test of the fuel stop, after the segment was driven
fuel_stop_due(miles, segment, to_drive, max_driving_hours, rounds_down) ==
    /\ float_less_after_sum(miles, segment, max_driving_hours, rounds_down)
    /\ to_drive > 0

\* 226: the test of the rest break
rest_break_due(hos, to_drive) == needs_30_min_break(hos) /\ to_drive > 0

\* 233: the test of the reset
reset_due(hos, to_drive) ==
    (duty_window_remaining(hos) <= 0 \/ driving_hours_remaining(hos) <= 0) /\ to_drive > 0

\* mutant: a reset of the branch that cannot drive is preceded by a break
compliance_action_break_before_reset(sched, time, hos, miles) ==
    LET b == _add_rest_break(sched, time, hos, miles, "Near mile")
    IN  IF needs_30_min_break(hos)
        THEN b
        ELSE _add_off_duty_reset(b.schedule, b.current_time, b.hos_state, miles,
                                 "Near mile")

\* 171-192: the stop of the branch that cannot drive; nothing is added when
\* none of the three tests holds
compliance_action(sched, time, hos, miles) ==
    IF needs_30_min_break(hos)
    THEN _add_rest_break(sched, time, hos, miles, "Near mile")
    ELSE IF duty_window_remaining(hos) <= 0 \/ driving_hours_remaining(hos) <= 0
    THEN _add_off_duty_reset(sched, time, hos, miles, "Near mile")
    ELSE IF cycle_hours_remaining(hos) <= 0
    THEN _add_off_duty_reset(sched, time, hos, miles, "Near mile (cycle limit)")
    ELSE Added(sched, time, hos)

\* mutant: the segment's hours are not added to total_driving_hours
drive_hours_untotalled(sched, time, hos, miles, segment, end_name) ==
    LET driving_hours == MilesToHours(segment)
        end_time == time + timedelta_hours(driving_hours)
    IN  Added([sched EXCEPT
                 !.events = Append(@, ScheduleEvent(time, end_time, "DRIVING",
                               end_name, "Mile", miles, miles + segment)),
                 !.total_on_duty_hours = @ + driving_hours],
              end_time,
              add_driving_time(hos, driving_hours))

\* mutant: the DRIVING event begins at the mile the leg began at
drive_from_leg_start(sched, time, hos, miles, segment, end_name) ==
    LET driving_hours == MilesToHours(segment)
        end_time == time + timedelta_hours(driving_hours)
    IN  Added([sched EXCEPT
                 !.events = Append(@, ScheduleEvent(time, end_time, "DRIVING",
                               end_name, "Mile",
                               IF end_name = "Driving to Pickup" THEN 0 ELSE legs[1],
                               miles + segment)),
                 !.total_driving_hours = @ + driving_hours,
                 !.total_on_duty_hours = @ + driving_hours],
              end_time,
              add_driving_time(hos, driving_hours))

\* 194-216: the DRIVING event of a segment and the update of the state
drive(sched, time, hos, miles, segment, end_name) ==
    LET driving_hours == MilesToHours(segment)
        end_time == time + timedelta_hours(driving_hours)
    IN  Added([sched EXCEPT
                 !.events = Append(@, ScheduleEvent(time, end_time, "DRIVING",
                               end_name, "Mile", miles, miles + segment)),
                 !.total_driving_hours = @ + driving_hours,
                 !.total_on_duty_hours = @ + driving_hours],
              end_time,
              add_driving_time(hos, driving_hours))

\* 218-237: the stops after a segment
stops_after_segment(a, miles, segment, to_drive, max_driving_hours, rounds_down) ==
    LET f == IF fuel_stop_due(miles, segment, to_drive, max_driving_hours, rounds_down)
             THEN _add_fuel_stop(a.schedule, a.current_time, a.hos_state, miles,
                                "Fuel stop at mile")
             ELSE a
        b == IF rest_break_due(f.hos_state, to_drive)
             THEN _add_rest_break(f.schedule, f.current_time, f.hos_state, miles,
                                 "Near mile")
             ELSE f
    IN  IF reset_due(b.hos_state, to_drive)
        THEN _add_off_duty_reset(b.schedule, b.current_time, b.hos_state, miles,
                                "Near mile")
        ELSE b

end_name(i) == IF i = 1 THEN "Driving to Pickup" ELSE "Driving to Dropoff"

\* 148-254, the step a call takes from its locals c: an iteration of the drive
\* loop, the stop that ends a leg, or the return
next_of_call(c, rounds_down) ==
    IF c.pc = "loop" /\ c.miles_to_drive > 0
    THEN LET segment == miles_this_segment(c.miles_to_drive, c.hos_state,
                                           c.current_miles)
         IN  IF segment > 0
             THEN LET d == drive(c.schedule, c.current_time, c.hos_state,
                                 c.current_miles, segment, end_name(c.leg_index))
                      r == stops_after_segment(d, c.current_miles + segment, segment,
                               c.miles_to_drive - segment,
                               get_max_continuous_driving_hours(c.hos_state),
                               rounds_down)
                  IN  [c EXCEPT !.schedule = r.schedule,
                                !.current_time = r.current_time,
                                !.hos_state = r.hos_state,
                                !.current_miles = @ + segment,
                                !.miles_to_drive = @ - segment,
                                !.leg_miles_driven = @ + segment]
             ELSE LET r == compliance_action(c.schedule, c.current_time,
                                             c.hos_state, c.current_miles)
                  IN  [c EXCEPT !.schedule = r.schedule,
                                !.current_time = r.current_time,
                                !.hos_state = r.hos_state]
    ELSE IF c.pc = "loop" /\ c.leg_index = 1
    THEN LET r == _add_pickup_stop(c.schedule, c.current_time, c.hos_state,
                                   c.current_miles, "pickup_location")
         IN  [c EXCEPT !.schedule = r.schedule,
                       !.current_time = r.current_time,
                       !.hos_state = r.hos_state,
                       !.leg_index = 2,
                       !.miles_to_drive = legs[2],
                       !.leg_miles_driven = 0]
    ELSE IF c.pc = "loop"
    THEN LET r == _add_dropoff_stop(c.schedule, c.current_time, c.hos_state,
                                    c.current_miles, "dropoff_location")
         IN  [c EXCEPT !.schedule = r.schedule,
                       !.current_time = r.current_time,
                       !.hos_state = r.hos_state,
                       !.pc = "return"]
    ELSE IF c.pc = "return"
    THEN [c EXCEPT !.schedule = [@ EXCEPT !.total_miles = c.current_miles,
                                          !.end_time = c.current_time],
                   !.pc = "done"]
    ELSE c

\* the second call takes its step with the first.  Float arithmetic is a
\* function of its operands: where the second call computes the test of line
\* 219 from the same values, the outcome is the same
TwinSteps(rounds_down) ==
    \E twin_rounds_down \in BOOLEAN :
        /\ (/\ twin.current_miles = current_miles
            /\ twin.miles_to_drive = miles_to_drive
            /\ twin.hos_state = hos_state) => twin_rounds_down = rounds_down
        /\ twin' = next_of_call(twin, twin_rounds_down)

\* an iteration that drives a segment (169 gives a positive distance)
DriveSegment ==
    /\ pc = "loop"
    /\ miles_to_drive > 0
    /\ LET segment == miles_this_segment(miles_to_drive, hos_state, current_miles)
       IN  /\ segment > 0
           /\ \E rounds_down \in BOOLEAN :
                 LET d == drive(schedule, current_time, hos_state, current_miles,
                                segment, end_name(leg_index))
                     r == stops_after_segment(d, current_miles + segment, segment,
                              miles_to_drive - segment,
                              get_max_continuous_driving_hours(hos_state), rounds_down)
                 IN  /\ schedule' = r.schedule
                     /\ current_time' = r.current_time
                     /\ hos_state' = r.hos_state
                     /\ TwinSteps(rounds_down)
           /\ current_miles' = current_miles + segment
           /\ miles_to_drive' = miles_to_drive - segment
           /\ leg_miles_driven' = leg_miles_driven + segment
    /\ UNCHANGED <<view, hos_call, by_day, legs, cycle_used_hours, start_time, pc, leg_index>>

\* an iteration that cannot drive (171-192): one break or reset, then continue
ComplianceAction ==
    /\ pc = "loop"
    /\ miles_to_drive > 0
    /\ miles_this_segment(miles_to_drive, hos_state, current_miles) <= 0
    /\ Len(schedule.events) < MaxEvents
    /\ LET r == compliance_action(schedule, current_time, hos_state, current_miles)
       IN  /\ schedule' = r.schedule
           /\ current_time' = r.current_time
           /\ hos_state' = r.hos_state
    /\ TwinSteps(FALSE)
    /\ UNCHANGED <<view, hos_call, by_day, legs, cycle_used_hours, start_time, pc, leg_index, miles_to_drive,
                   leg_miles_driven, current_miles>>

\* 239-244 after the loop of the first leg, then 149-154 for the second leg
PickupStop ==
    /\ pc = "loop"
    /\ miles_to_drive <= 0
    /\ leg_index = 1
    /\ LET r == _add_pickup_stop(schedule, current_time, hos_state, current_miles,
                                "pickup_location")
       IN  /\ schedule' = r.schedule
           /\ current_time' = r.current_time
           /\ hos_state' = r.hos_state
    /\ leg_index' = 2
    /\ miles_to_drive' = legs[2]
    /\ leg_miles_driven' = 0
    /\ TwinSteps(FALSE)
    /\ UNCHANGED <<view, hos_call, by_day, legs, cycle_used_hours, start_time, pc, current_miles>>

\* 245-249 after the loop of the second leg
DropoffStop ==
    /\ pc = "loop"
    /\ miles_to_drive <= 0
    /\ leg_index = 2
    /\ LET r == _add_dropoff_stop(schedule, current_time, hos_state, current_miles,
                                 "dropoff_location")
       IN  /\ schedule' = r.schedule
           /\ current_time' = r.current_time
           /\ hos_state' = r.hos_state
    /\ pc' = "return"
    /\ TwinSteps(FALSE)
    /\ UNCHANGED <<view, hos_call, by_day, legs, cycle_used_hours, start_time, leg_index, miles_to_drive,
                   leg_miles_driven, current_miles>>

\* mutant: the return without line 251, total_miles left at 0
Return_total_miles_unset ==
    /\ pc = "return"
    /\ schedule' = [schedule EXCEPT !.end_time = current_time]
    /\ pc' = "done"
    /\ TwinSteps(FALSE)
    /\ UNCHANGED <<view, hos_call, by_day, legs, cycle_used_hours, start_time, leg_index, miles_to_drive,
                   leg_miles_driven, current_time, current_miles, hos_state>>

\* 251-254
Return ==
    /\ pc = "return"
    /\ schedule' = [schedule EXCEPT !.total_miles = current_miles,
                                    !.end_time = current_time]
    /\ pc' = "done"
    /\ TwinSteps(FALSE)
    /\ UNCHANGED <<view, hos_call, by_day, legs, cycle_used_hours, start_time, leg_index, miles_to_drive,
                   leg_miles_driven, current_time, current_miles, hos_state>>

(***************************************************************************)
(* scheduler.py:441-516, the schedule by day.  The times of the sub-events *)
(* are counted in instants.  A second is a whole number of ticks, as it is *)
(* a whole number of microseconds: the part of a time below the second is  *)
(* its microsecond field, which replace(hour, minute, second) keeps.  The  *)
(* second is scaled up with the tick, the day is 24 hours.                 *)
(***************************************************************************)
INSTANTS_PER_TICK == 1

SECOND == 2 * INSTANTS_PER_TICK

DAY == ((24 * HOUR) \div TICK) * INSTANTS_PER_TICK

\* a datetime of the schedule, in instants
instants(time) == time * INSTANTS_PER_TICK

\* 459: strftime("%Y-%m-%d"), the day a datetime lies in
day_key_of(time) == time \div DAY

\* 460: replace(hour=23, minute=59, second=59) keeps the date and the microsecond
replace_23_59_59(time) ==
    (time \div DAY) * DAY + (DAY - SECOND) + (time % SECOND)

\* 481: replace(hour=0, minute=0, second=0) keeps the date and the microsecond
replace_0_0_0(time) == (time \div DAY) * DAY + (time % SECOND)

\* mutant: the sub-event is stored under the day the whole event began in
add_to_day_of_event(days, event, day_event) ==
    LET day_key == day_key_of(instants(event.start_time))
    IN  IF day_key \in DOMAIN days
        THEN [days EXCEPT ![day_key] = Append(@, day_event)]
        ELSE days @@ (day_key :> <<day_event>>)

\* 459, 476-478: the sub-event is appended to the list of its day
add_to_day(days, event, day_event) ==
    LET day_key == day_key_of(day_event.start_time)
    IN  IF day_key \in DOMAIN days
        THEN [days EXCEPT ![day_key] = Append(@, day_event)]
        ELSE days @@ (day_key :> <<day_event>>)

RECURSIVE split_event(_, _, _)
\* 458-481: the while loop that cuts one event, from current_start on
split_event(days, event, current_start) ==
    LET event_end == instants(event.end_time)
    IN  IF ~(current_start < event_end)
        THEN days
        ELSE LET day_end == replace_23_59_59(current_start)
                 segment_end == Min(day_end, event_end)
                 day_event == ScheduleEvent(current_start, segment_end, event.status,
                                            event.note, event.location,
                                            event.miles_start, event.miles_end)
             IN  split_event(add_to_day(days, event, day_event), event,
                             replace_0_0_0(current_start + DAY))

RECURSIVE split_events(_, _, _)
\* 453-456: the for loop over the events from the i-th on
split_events(days, evs, i) ==
    IF i > Len(evs)
    THEN days
    ELSE split_events(split_event(days, evs[i], instants(evs[i].start_time)), evs, i + 1)

\* 441-483
get_schedule_by_day(sched) == split_events(<< >>, sched.events, 1)

RECURSIVE calculate_daily_totals(_)
\* 486-516, the hours in instants; the model has no SLEEPER_BERTH event
calculate_daily_totals(day_events) ==
    IF day_events = << >>
    THEN [driving_hours |-> 0, on_duty_hours |-> 0, off_duty_hours |-> 0,
          sleeper_hours |-> 0, total_miles |-> 0]
    ELSE LET event == day_events[Len(day_events)]
             totals == calculate_daily_totals(SubSeq(day_events, 1, Len(day_events) - 1))
             hours == event.end_time - event.start_time
         IN  IF event.status = "DRIVING"
             THEN [totals EXCEPT !.driving_hours = @ + hours,
                                 !.total_miles = @ + (event.miles_end - event.miles_start)]
             ELSE IF event.status = "ON_DUTY_NOT_DRIVING"
             THEN [totals EXCEPT !.on_duty_hours = @ + hours]
             ELSE IF event.status = "OFF_DUTY"
             THEN [totals EXCEPT !.off_duty_hours = @ + hours]
             ELSE [totals EXCEPT !.sleeper_hours = @ + hours]

\* the returned schedule is cut into days (generate_all_log_sheets)
GetScheduleByDay ==
    /\ pc = "done"
    /\ by_day' = get_schedule_by_day(schedule)
    /\ pc' = "by_day"
    /\ UNCHANGED <<view, hos_call, legs, cycle_used_hours, start_time, leg_index,
                   miles_to_drive, leg_miles_driven, current_time, current_miles,
                   hos_state, schedule, twin>>

Next ==
    \/ DriveSegment
    \/ ComplianceAction
    \/ PickupStop
    \/ DropoffStop
    \/ Return
    \/ GetScheduleByDay

Spec == Init /\ [][Next]_vars

(***************************************************************************)
(* create_trip_schedule called directly: the function tests none of its    *)
(* arguments, so a leg may be negative or missing, cycle_used_hours        *)
(* outside [0, 70], and start_time left out                                *)
(***************************************************************************)
AnyLegChoices ==
    {-5 * MILE, 0, 1, 50 * MILE, 163 * MILE, 500 * MILE, 1000 * MILE, 1100 * MILE}

\* route.legs with two legs, or with one
AnyLegLists == (AnyLegChoices \X AnyLegChoices) \cup {<<d>> : d \in AnyLegChoices}

AnyCycleChoices == {-HOUR, 0, 69 * HOUR + HOUR \div 2, 71 * HOUR}

AnyStartChoices == StartChoices \cup {NoStartTime}

InitAnyInput == InitOf(AnyLegLists, AnyCycleChoices, AnyStartChoices)

SpecAnyInput == InitAnyInput /\ [][Next]_vars

(***************************************************************************)
(* Reading a schedule                                                      *)
(***************************************************************************)
events == schedule.events

stops == schedule.stops

IsDriving(e) == e.status = "DRIVING"

IsReset(e) == e.status = "OFF_DUTY" /\ e.note = "10-hr Off Duty (Shift Reset)"

IsOnDutyStop(e) == e.status = "ON_DUTY_NOT_DRIVING"

\* the driving hours of an event: its distance at the average speed
DrivingHoursOf(e) ==
    IF IsDriving(e) THEN MilesToHours(e.miles_end - e.miles_start) ELSE 0

\* the hours an event adds to the duty cycle: driving and on-duty stops
CycleHoursOf(e) ==
    IF IsDriving(e) THEN DrivingHoursOf(e)
    ELSE IF IsOnDutyStop(e) THEN duration_hours(e)
    ELSE 0

RECURSIVE SumDriving(_, _, _)
\* the driving hours of the events lo..hi of evs
SumDriving(evs, lo, hi) ==
    IF lo > hi THEN 0 ELSE DrivingHoursOf(evs[hi]) + SumDriving(evs, lo, hi - 1)

RECURSIVE SumCycle(_, _, _)
\* the duty-cycle hours of the events lo..hi of evs
SumCycle(evs, lo, hi) ==
    IF lo > hi THEN 0 ELSE CycleHoursOf(evs[hi]) + SumCycle(evs, lo, hi - 1)

\* the hours an event adds to the duty window: every event but a reset
WindowHoursOf(e) ==
    IF IsDriving(e) THEN DrivingHoursOf(e)
    ELSE IF IsReset(e) THEN 0
    ELSE duration_hours(e)

RECURSIVE SumWindow(_, _, _)
\* the duty-window hours of the events lo..hi of evs
SumWindow(evs, lo, hi) ==
    IF lo > hi THEN 0 ELSE WindowHoursOf(evs[hi]) + SumWindow(evs, lo, hi - 1)

\* the greatest index j <= i with a non-driving event, 0 when there is none
LastStopUpTo(evs, i) ==
    LET js == {j \in 1 .. i : ~IsDriving(evs[j])}
    IN  IF js = {} THEN 0 ELSE CHOOSE j \in js : \A k \in js : k <= j

\* the greatest index j <= i with a 10-hour reset, 0 when there is none
LastResetUpTo(evs, i) ==
    LET js == {j \in 1 .. i : IsReset(evs[j])}
    IN  IF js = {} THEN 0 ELSE CHOOSE j \in js : \A k \in js : k <= j

\* the mile markers of the FUEL stops, in order
FuelMarkers == {stops[i].mile_marker : i \in {j \in 1 .. Len(stops) : stops[j].stop_type = "FUEL"}}

LastEvent == events[Len(events)]

(***************************************************************************)
(* C1.  When the cycle budget is exhausted while leg distance remains,     *)
(* the run fails with a "cycle limit prevents completion" condition        *)
(* instead of inserting compliance actions without mileage progress: once  *)
(* the cycle-limit reset has been inserted and the cycle budget is still   *)
(* exhausted with distance remaining, the run is in a failed state.        *)
(* The program has no such state: it stays in the drive loop.              *)
(***************************************************************************)
C1_CycleLimitFailsTheRun ==
    (/\ Len(events) > 0
     /\ LastEvent.location = "Near mile (cycle limit)"
     /\ miles_to_drive > 0
     /\ cycle_hours_remaining(hos_state) <= 0)
        => pc = "failed"

(***************************************************************************)
(* C2.  Every run terminates.  A run of the deterministic drive loop that  *)
(* terminates never repeats the state the loop's tests read: every         *)
(* iteration reduces the remaining distance or changes the HOS state from  *)
(* which the next segment is computed.                                     *)
(***************************************************************************)
C2_EveryIterationProgresses ==
    [][(pc = "loop" /\ miles_to_drive > 0)
          => \/ miles_to_drive' < miles_to_drive
             \/ hos_state' # hos_state]_vars

(***************************************************************************)
(* C3.  At the end of every DRIVING event the driving time accumulated     *)
(* since the most recent break-qualifying event (trip start, rest break,   *)
(* reset, fuel, pickup: every non-driving event) is at most 8 hours.       *)
(***************************************************************************)
C3_BreakRule ==
    \A i \in 1 .. Len(events) :
        IsDriving(events[i])
            => SumDriving(events, LastStopUpTo(events, i) + 1, i)
                   <= BREAK_REQUIRED_AFTER_HOURS

\* a DRIVING event of exactly 8 hours, followed by the rest break
C3_Witness ==
    \E i \in 1 .. Len(events) - 1 :
        /\ IsDriving(events[i])
        /\ DrivingHoursOf(events[i]) = BREAK_REQUIRED_AFTER_HOURS
        /\ events[i + 1].note = "30-min Rest Break (8hr rule)"

(***************************************************************************)
(* C4.  The driving hours accumulated within one shift (from the trip      *)
(* start or the end of the latest 10-hour reset) never exceed 11.          *)
(***************************************************************************)
C4_DrivingCap ==
    \A i \in 1 .. Len(events) :
        SumDriving(events, LastResetUpTo(events, i) + 1, i) <= MAX_DRIVING_HOURS

\* a shift of several DRIVING events with 11 hours of driving, closed by a reset
C4_Witness ==
    \E i \in 2 .. Len(events) :
        /\ IsReset(events[i])
        /\ SumDriving(events, LastResetUpTo(events, i - 1) + 1, i - 1) = MAX_DRIVING_HOURS
        /\ Cardinality({j \in LastResetUpTo(events, i - 1) + 1 .. i - 1 :
                           IsDriving(events[j])}) >= 3

C6_CycleCap ==
    \A i \in 1 .. Len(events) :
        IsDriving(events[i])
            => /\ cycle_used_hours + SumCycle(events, 1, i - 1) < CYCLE_LIMIT_HOURS
               /\ cycle_used_hours + SumCycle(events, 1, i) <= CYCLE_LIMIT_HOURS

\* a DRIVING event that uses up the cycle exactly, after a pickup added hours
C6_Witness ==
    \E i \in 2 .. Len(events) :
        /\ IsDriving(events[i])
        /\ cycle_used_hours + SumCycle(events, 1, i) = CYCLE_LIMIT_HOURS
        /\ \E j \in 1 .. i - 1 : events[j].note = "Pickup - Loading"
        /\ hos_state.cycle_hours_used >= CYCLE_LIMIT_HOURS

(***************************************************************************)
(* C7.  The events are in non-decreasing start order and never overlap.    *)
(***************************************************************************)
C7_EventsOrdered ==
    \A i \in 1 .. Len(events) - 1 :
        /\ events[i].start_time <= events[i + 1].start_time
        /\ events[i].end_time <= events[i + 1].start_time

\* a returned schedule that holds a reset, a fuel stop and a rest break
C7_Witness ==
    /\ pc = "done"
    /\ \E i \in 1 .. Len(events) : IsReset(events[i])
    /\ \E i \in 1 .. Len(events) : events[i].note = "Fuel Stop"
    /\ \E i \in 1 .. Len(events) : events[i].note = "30-min Rest Break (8hr rule)"

(***************************************************************************)
(* C8.  Every event has start_time < end_time.  The program emits a        *)
(* DRIVING event for every positive distance, and a distance that takes    *)
(* less than half a datetime tick to drive gives an event of length 0.     *)
(***************************************************************************)
C8_NoZeroLengthEvent ==
    \A i \in 1 .. Len(events) : events[i].start_time < events[i].end_time

(***************************************************************************)
(* C9.  A fuel stop at least every 1000 miles: from the trip start to the  *)
(* first FUEL stop, between FUEL stops, and from the last FUEL stop to the *)
(* position reached, at most 1000 miles are driven.  The program inserts   *)
(* no FUEL stop when a leg ends on the boundary.                           *)
(***************************************************************************)
C9_FuelEvery1000Miles ==
    \A m \in {0} \cup FuelMarkers :
        LET later == {x \in FuelMarkers \cup {current_miles} : x > m}
        IN  \A x \in later :
                (\A y \in later : x <= y) => x - m <= FUEL_STOP_INTERVAL_MILES

(***************************************************************************)
(* C10.  At most one FUEL stop per 1000-mile boundary: the mile markers of *)
(* the FUEL stops are pairwise distinct positive multiples of 1000.  The   *)
(* program's float test of the fuel stop can hold after a segment that     *)
(* started on a boundary, and then a second FUEL stop follows it.          *)
(***************************************************************************)
C10_FuelOnlyAtBoundaries ==
    /\ \A i \in 1 .. Len(stops) :
          stops[i].stop_type = "FUEL"
              => /\ stops[i].mile_marker > 0
                 /\ stops[i].mile_marker % FUEL_STOP_INTERVAL_MILES = 0
    /\ \A i, j \in 1 .. Len(stops) :
          (i < j /\ stops[i].stop_type = "FUEL" /\ stops[j].stop_type = "FUEL")
              => stops[i].mile_marker # stops[j].mile_marker

(***************************************************************************)
(* C11.  A first leg of exactly 1000 miles, driven from mile 0, has        *)
(* exactly one FUEL stop at its end, mile marker 1000: once the leg is     *)
(* driven, the stops hold one FUEL stop with that marker.  The program     *)
(* tests the fuel stop only while distance of the leg remains (219), and   *)
(* the next leg starts on the boundary: no FUEL stop is inserted there.    *)
(***************************************************************************)
C11_OneFuelStopAfter1000MileLeg ==
    (legs[1] = FUEL_STOP_INTERVAL_MILES /\ leg_index = 2)
        => Cardinality({i \in 1 .. Len(stops) :
                           /\ stops[i].stop_type = "FUEL"
                           /\ stops[i].mile_marker = FUEL_STOP_INTERVAL_MILES}) = 1

RECURSIVE SumDrivingDuration(_, _)
\* the sum of duration_hours over the DRIVING events among the first n of evs
SumDrivingDuration(evs, n) ==
    IF n = 0 THEN 0
    ELSE (IF IsDriving(evs[n]) THEN duration_hours(evs[n]) ELSE 0)
             + SumDrivingDuration(evs, n - 1)

NumDriving == Cardinality({i \in 1 .. Len(events) : IsDriving(events[i])})

NonDrivingEvents == SelectSeq(events, LAMBDA e : ~IsDriving(e))

\* the note of the event that is appended with a stop of a type
NoteOfStopType(stop_type) ==
    CASE stop_type = "PICKUP" -> "Pickup - Loading"
      [] stop_type = "DROPOFF" -> "Dropoff - Unloading"
      [] stop_type = "FUEL" -> "Fuel Stop"
      [] stop_type = "REST_BREAK" -> "30-min Rest Break (8hr rule)"
      [] stop_type = "OFF_DUTY" -> "10-hr Off Duty (Shift Reset)"

(***************************************************************************)
(* C13.  After every step the stops and the non-DRIVING events correspond  *)
(* one to one, in order: there are as many of each, the i-th event is the  *)
(* one appended with the i-th stop, its duration is the stop's             *)
(* duration_minutes, and its miles_start = miles_end = the stop's          *)
(* mile_marker.                                                            *)
(***************************************************************************)
C13_StopsMatchEvents ==
    /\ Len(NonDrivingEvents) = Len(stops)
    /\ \A i \in 1 .. Len(stops) :
          LET e == NonDrivingEvents[i]
              s == stops[i]
          IN  /\ e.note = NoteOfStopType(s.stop_type)
              /\ duration_hours(e) = MinutesToHours(s.duration_minutes)
              /\ e.miles_start = s.mile_marker
              /\ e.miles_end = s.mile_marker

\* a returned schedule with a stop of each of the five types
C13_Witness ==
    /\ pc = "done"
    /\ \A t \in {"PICKUP", "DROPOFF", "FUEL", "REST_BREAK", "OFF_DUTY"} :
          \E i \in 1 .. Len(stops) : stops[i].stop_type = t
    /\ \E i \in 1 .. Len(events) : IsDriving(events[i])

NumStops(stop_type) ==
    Cardinality({i \in 1 .. Len(stops) : stops[i].stop_type = stop_type})

(***************************************************************************)
(* C15.  A short trip: two legs of positive distance, together at most 440 *)
(* miles (8 hours at 55 mph), and no cycle hours used.  The returned       *)
(* schedule has exactly 2 DRIVING events, one per leg, one PICKUP and one  *)
(* DROPOFF stop and no other stop, and total_miles is the sum of the legs. *)
(***************************************************************************)
C15_ShortTrip ==
    (/\ pc = "done"
     /\ cycle_used_hours = 0
     /\ legs[1] > 0
     /\ legs[2] > 0
     /\ legs[1] + legs[2] <= HoursToMiles(BREAK_REQUIRED_AFTER_HOURS))
        => /\ NumDriving = 2
           /\ Len(events) = 4
           /\ events[1].note = "Driving to Pickup"
           /\ events[3].note = "Driving to Dropoff"
           /\ Len(stops) = 2
           /\ stops[1].stop_type = "PICKUP"
           /\ stops[2].stop_type = "DROPOFF"
           /\ schedule.total_miles = legs[1] + legs[2]

\* the documented scenario, legs of 50 and 50 miles, returned
C15_Witness ==
    /\ pc = "done"
    /\ cycle_used_hours = 0
    /\ legs = <<50 * MILE, 50 * MILE>>
    /\ schedule.total_miles = 100 * MILE
    /\ NumDriving = 2

(***************************************************************************)
(* C16.  A first leg of more than 8 and at most 11 hours of driving (more  *)
(* than 440 and at most 605 miles) with no cycle hours used: the leg has   *)
(* exactly one REST_BREAK, at mile 440 where the driving since the last    *)
(* break reaches 8 hours, exactly two DRIVING events, and no reset.  Once  *)
(* the pickup is added the events are DRIVING to mile 440, the break,      *)
(* DRIVING to the end of the leg, and the pickup.                          *)
(***************************************************************************)
C16_BreakSplitsTheLeg ==
    (/\ leg_index = 2
     /\ cycle_used_hours = 0
     /\ legs[1] > HoursToMiles(BREAK_REQUIRED_AFTER_HOURS)
     /\ legs[1] <= HoursToMiles(MAX_DRIVING_HOURS))
        => /\ Len(events) >= 4
           /\ IsDriving(events[1])
           /\ events[1].miles_start = 0
           /\ events[1].miles_end = HoursToMiles(BREAK_REQUIRED_AFTER_HOURS)
           /\ DrivingHoursOf(events[1]) = BREAK_REQUIRED_AFTER_HOURS
           /\ events[2].note = "30-min Rest Break (8hr rule)"
           /\ stops[1].stop_type = "REST_BREAK"
           /\ stops[1].mile_marker = HoursToMiles(BREAK_REQUIRED_AFTER_HOURS)
           /\ IsDriving(events[3])
           /\ events[3].miles_end = legs[1]
           /\ events[4].note = "Pickup - Loading"
           /\ stops[2].stop_type = "PICKUP"

\* the documented scenario, a first leg of 500 miles, driven and picked up
C16_Witness ==
    /\ leg_index = 2
    /\ cycle_used_hours = 0
    /\ legs[1] = 500 * MILE
    /\ Len(events) = 4
    /\ NumStops("REST_BREAK") = 1
    /\ NumStops("OFF_DUTY") = 0

(***************************************************************************)
(* Reading the schedule by day                                             *)
(***************************************************************************)
\* the places <<day, index>> of the sub-events
SubEventPlaces == {<<d, k>> \in (DOMAIN by_day) \X (1 .. MaxEvents) : k <= Len(by_day[d])}

SubEventAt(place) == by_day[place[1]][place[2]]

\* the places of the sub-events cut from the i-th event: events do not
\* overlap, so they are the sub-events that begin within the event
SubEventPlacesOf(i) ==
    {place \in SubEventPlaces :
        /\ instants(events[i].start_time) <= SubEventAt(place).start_time
        /\ SubEventAt(place).start_time < instants(events[i].end_time)}

\* the i-th event goes on past the midnight that follows its start
CrossesMidnight(i) ==
    instants(events[i].end_time) > (day_key_of(instants(events[i].start_time)) + 1) * DAY

RECURSIVE SumSubEventDurations(_)
\* the sum of the durations, in instants, of the sub-events at a set of places
SumSubEventDurations(places) ==
    IF places = {} THEN 0
    ELSE LET place == CHOOSE x \in places : TRUE
         IN  (SubEventAt(place).end_time - SubEventAt(place).start_time)
                 + SumSubEventDurations(places \ {place})

RECURSIVE SumDailyMiles(_)
\* the sum of calculate_daily_totals(...)["total_miles"] over a set of days
SumDailyMiles(days) ==
    IF days = {} THEN 0
    ELSE LET d == CHOOSE x \in days : TRUE
         IN  calculate_daily_totals(by_day[d]).total_miles + SumDailyMiles(days \ {d})

(***************************************************************************)
(* C17.  Day segmentation preserves elapsed time: the sub-events of an     *)
(* event that crosses midnight have durations that sum to the event's      *)
(* duration, and each sub-event that ends before the event does is         *)
(* followed by one that begins where it ends.  The program ends the part   *)
(* of a day at 23:59:59 and begins the next at 00:00:00: a second of the   *)
(* event is lost at every midnight.                                        *)
(***************************************************************************)
C17_SplitKeepsElapsedTime ==
    pc = "by_day"
        => \A i \in 1 .. Len(events) :
              CrossesMidnight(i)
                  => /\ SumSubEventDurations(SubEventPlacesOf(i))
                            = instants(events[i].end_time) - instants(events[i].start_time)
                     /\ \A p \in SubEventPlacesOf(i) :
                           SubEventAt(p).end_time < instants(events[i].end_time)
                               => \E q \in SubEventPlacesOf(i) :
                                     SubEventAt(q).start_time = SubEventAt(p).end_time

(***************************************************************************)
(* C18.  Day segmentation pro-rates mileage: the miles of the days, as     *)
(* calculate_daily_totals counts them, sum to the schedule's total_miles.  *)
(* The program gives every sub-event the whole mile range of its event, so *)
(* a DRIVING event that crosses midnight is counted once for every day.    *)
(***************************************************************************)
C18_DailyMilesSumToTotal ==
    pc = "by_day" => SumDailyMiles(DOMAIN by_day) = schedule.total_miles

(***************************************************************************)
(* C19.  Every sub-event of the schedule by day has the status, the note   *)
(* and the location of the event it was cut from, and is stored under the  *)
(* day of its own start_time.                                              *)
(***************************************************************************)
C19_SubEventsKeepLabels ==
    pc = "by_day"
        => \A p \in SubEventPlaces :
              /\ day_key_of(SubEventAt(p).start_time) = p[1]
              /\ \E i \in 1 .. Len(events) :
                    /\ p \in SubEventPlacesOf(i)
                    /\ SubEventAt(p).status = events[i].status
                    /\ SubEventAt(p).note = events[i].note
                    /\ SubEventAt(p).location = events[i].location

\* a DRIVING event that crosses midnight, cut into a part for each day
C19_Witness ==
    /\ pc = "by_day"
    /\ \E i \in 1 .. Len(events) :
          /\ IsDriving(events[i])
          /\ CrossesMidnight(i)
          /\ Cardinality(SubEventPlacesOf(i)) = 2
          /\ \E p \in SubEventPlacesOf(i) : SubEventAt(p).start_time % DAY = 0

\* an argument the specification calls invalid: a missing leg, a negative
\* distance, or cycle_used_hours outside [0, 70]
InvalidInput ==
    \/ Len(legs) < 2
    \/ \E i \in 1 .. Len(legs) : legs[i] < 0
    \/ cycle_used_hours < 0
    \/ cycle_used_hours > CYCLE_LIMIT_HOURS

(***************************************************************************)
(* C20.  Invalid input to the scheduling run is rejected before any event  *)
(* or stop is appended, and no schedule is returned for it.  The program   *)
(* raises only for a missing leg; create_trip_schedule tests neither the   *)
(* distances nor cycle_used_hours, and schedules such a trip as any other. *)
(***************************************************************************)
C20_InvalidInputRejected ==
    InvalidInput
        => /\ Len(events) = 0
           /\ Len(stops) = 0
           /\ pc \notin {"return", "done", "by_day"}

(***************************************************************************)
(* plan_trip (views.py): the request is validated by the serializer, its   *)
(* three locations are parsed, the route is calculated, and only then the  *)
(* schedule is created.  The geocoder and the router are services outside  *)
(* the program: what they answer is chosen freely.                         *)
(***************************************************************************)
None == "None"

\* a location of the request body
LocationData(lat, lng, address) == [lat |-> lat, lng |-> lng, address |-> address]

\* coordinates, a known address, an address the geocoder may not find,
\* nothing at all
LocationChoices ==
    {LocationData("41.9", "-87.6", ""),
     LocationData(None, None, "Chicago, IL"),
     LocationData(None, None, "Atlantis"),
     LocationData(None, None, "")}

\* cycleUsedHours is left out of the request body
NoCycleUsedHours == 0 - 1

CycleRequestChoices == {NoCycleUsedHours, 0, 30 * HOUR, 71 * HOUR}

\* the addresses the geocoder finds
GeocoderChoices == {{}, {"Chicago, IL"}}

\* LocationSerializer.validate
LocationSerializer_is_valid(data) ==
    LET has_coords == data.lat # None /\ data.lng # None
        has_address == data.address # ""
    IN  has_coords \/ has_address

\* PlanTripRequestSerializer.is_valid: the three locations, and
\* cycleUsedHours within [0, 70] when it is given
PlanTripRequestSerializer_is_valid(data) ==
    /\ LocationSerializer_is_valid(data.current)
    /\ LocationSerializer_is_valid(data.pickup)
    /\ LocationSerializer_is_valid(data.dropoff)
    /\ \/ data.cycleUsedHours = NoCycleUsedHours
       \/ (0 <= data.cycleUsedHours /\ data.cycleUsedHours <= 70 * HOUR)

\* validated_data.get('cycleUsedHours', 0), the field's default being 0
validated_cycleUsedHours(data) ==
    IF data.cycleUsedHours = NoCycleUsedHours THEN 0 ELSE data.cycleUsedHours

\* _parse_location: TRUE when it returns a Location, FALSE when it raises
\* ValueError; found is the set of addresses geocode_address finds
_parse_location(data, found) ==
    IF data.lat # None /\ data.lng # None
    THEN TRUE
    ELSE data.address # "" /\ data.address \in found

\* calculate_route: the route of the two legs, or None
RouteResult(route_legs) == [is_none |-> FALSE, legs |-> route_legs]

NoRoute == [is_none |-> TRUE, legs |-> << >>]

RouteChoices ==
    {NoRoute,
     RouteResult(<<50 * MILE, 163 * MILE>>),
     RouteResult(<<605 * MILE, 15 * MILE>>)}

\* the request being served: its body, the addresses the geocoder finds,
\* the calls made for it so far in their order, the router's answer, the status of the response (0 until
\* there is one)
Request(at, data, found, calls, route, status) ==
    [at |-> at, data |-> data, found |-> found, calls |-> calls, route |-> route,
     status |-> status]

\* views.py:55-91 with the route test (70) left out
plan_trip_route_unchecked(data, found, route) ==
    IF ~PlanTripRequestSerializer_is_valid(data)
    THEN Request("responded", data, found, << >>, NoRoute, 400)
    ELSE IF ~(/\ _parse_location(data.current, found)
              /\ _parse_location(data.pickup, found)
              /\ _parse_location(data.dropoff, found))
    THEN Request("responded", data, found, << >>, NoRoute, 400)
    ELSE Request("scheduling", data, found,
                 <<"calculate_route", "create_trip_schedule">>, route, 0)

\* views.py:55-91: plan_trip up to its call of create_trip_schedule
plan_trip(data, found, route) ==
    IF ~PlanTripRequestSerializer_is_valid(data)
    THEN Request("responded", data, found, << >>, NoRoute, 400)
    ELSE IF ~(/\ _parse_location(data.current, found)
              /\ _parse_location(data.pickup, found)
              /\ _parse_location(data.dropoff, found))
    THEN Request("responded", data, found, << >>, NoRoute, 400)
    ELSE IF route.is_none
    THEN Request("responded", data, found, <<"calculate_route">>, route, 400)
    ELSE Request("scheduling", data, found,
                 <<"calculate_route", "create_trip_schedule">>, route, 0)

\* the locals of create_trip_schedule before it is called
NotCalled ==
    CallState("plan_trip", 0, 0, 0, 0, 0, HOSState(0, 0, 0, 0, 0, FALSE), TripSchedule(0))

\* create_trip_schedule as plan_trip calls it: no start_time; route.legs of
\* None raises (scheduler.py:131)
call_of_view(request, now) ==
    IF request.at # "scheduling" THEN [NotCalled EXCEPT !.pc = "responded"]
    ELSE IF request.route.is_none THEN [NotCalled EXCEPT !.pc = "raised"]
    ELSE begin_call(request.route.legs, validated_cycleUsedHours(request.data),
                    initial_start_time(NoStartTime, now))

InitPlanTrip ==
    /\ view \in {Request("plan_trip",
                         [current |-> c, pickup |-> p, dropoff |-> d,
                          cycleUsedHours |-> h],
                         {}, << >>, NoRoute, 0) :
                    c \in LocationChoices, p \in LocationChoices,
                    d \in LocationChoices, h \in CycleRequestChoices}
    /\ legs = << >>
    /\ cycle_used_hours = 0
    /\ start_time = NoStartTime
    /\ pc = NotCalled.pc
    /\ leg_index = NotCalled.leg_index
    /\ miles_to_drive = NotCalled.miles_to_drive
    /\ leg_miles_driven = NotCalled.leg_miles_driven
    /\ current_time = NotCalled.current_time
    /\ current_miles = NotCalled.current_miles
    /\ hos_state = NotCalled.hos_state
    /\ schedule = NotCalled.schedule
    /\ twin = NotCalled
    /\ by_day = << >>
    /\ hos_call = NoCall

\* views.py:55-91
PlanTrip ==
    /\ pc = "plan_trip"
    /\ \E found \in GeocoderChoices, route \in RouteChoices, now \in NowChoices :
          LET request == plan_trip(view.data, found, route)
              c == call_of_view(request, now)
          IN  /\ view' = request
              /\ legs' = IF request.at = "scheduling" THEN request.route.legs ELSE legs
              /\ cycle_used_hours' =
                    IF request.at = "scheduling"
                    THEN validated_cycleUsedHours(request.data)
                    ELSE cycle_used_hours
              /\ pc' = c.pc
              /\ leg_index' = c.leg_index
              /\ miles_to_drive' = c.miles_to_drive
              /\ leg_miles_driven' = c.leg_miles_driven
              /\ current_time' = c.current_time
              /\ current_miles' = c.current_miles
              /\ hos_state' = c.hos_state
              /\ schedule' = c.schedule
              /\ twin' = c
    /\ UNCHANGED <<start_time, by_day, hos_call>>

\* views.py:93-198: the log sheets are made of the schedule cut into days,
\* and the response is built
Respond ==
    /\ view.at = "scheduling"
    /\ pc = "by_day"
    /\ view' = [view EXCEPT !.at = "responded", !.status = 200]
    /\ UNCHANGED <<legs, cycle_used_hours, start_time, pc, leg_index, miles_to_drive,
                   leg_miles_driven, current_time, current_miles, hos_state,
                   schedule, twin, by_day, hos_call>>

NextPlanTrip ==
    \/ PlanTrip
    \/ DriveSegment
    \/ ComplianceAction
    \/ PickupStop
    \/ DropoffStop
    \/ Return
    \/ GetScheduleByDay
    \/ Respond

SpecPlanTrip == InitPlanTrip /\ [][NextPlanTrip]_vars

(***************************************************************************)
(* Reading a request that was served                                       *)
(***************************************************************************)
Called(name) == \E i \in DOMAIN view.calls : view.calls[i] = name

\* the scheduler has not run: its locals are as they were before the request
SchedulerUntouched ==
    /\ schedule = NotCalled.schedule
    /\ hos_state = NotCalled.hos_state
    /\ by_day = << >>
    /\ pc \in {"plan_trip", "responded"}

FailsValidation == ~PlanTripRequestSerializer_is_valid(view.data)

FailsLocationParsing ==
    \E name \in {"current", "pickup", "dropoff"} :
        ~_parse_location(view.data[name], view.found)

\* C21: when the router returns no route, plan_trip answers with a failure
\* and create_trip_schedule is never called; a request that fails validation
\* or whose locations cannot be parsed reaches neither calculate_route nor
\* the scheduler.
C21_FailureNeverSchedules ==
    (view.at \notin {"none", "plan_trip"}) =>
        /\ (Called("calculate_route") /\ view.route.is_none) =>
              /\ view.at = "responded"
              /\ view.status = 400
              /\ ~Called("create_trip_schedule")
              /\ SchedulerUntouched
        /\ (FailsValidation \/ FailsLocationParsing) =>
              /\ view.at = "responded"
              /\ view.status = 400
              /\ ~Called("calculate_route")
              /\ ~Called("create_trip_schedule")
              /\ SchedulerUntouched

\* a request whose locations were parsed and for which the router found no
\* route has been answered
C21_Witness ==
    /\ view.at = "responded"
    /\ view.calls = <<"calculate_route">>
    /\ view.route.is_none
    /\ view.status = 400

(***************************************************************************)
(* The functions of hos_rules called on their own, in any order: from the  *)
(* state of a driver before the first shift, each call is applied to the   *)
(* result of the one before it.                                            *)
(***************************************************************************)
MaxHOSCalls == 3

\* the hours of a call: none, less than a break, a break, the driving left
\* in a shift after 8 hours, the driving allowed before a break, a reset
HOSHourChoices == {0, HOUR \div 4, HOUR \div 2, 3 * HOUR, 8 * HOUR, 10 * HOUR}

\* a call, its arguments and its result
HOSCall(op, state, hours, counts_as_break, result) ==
    [op |-> op, state |-> state, hours |-> hours,
     counts_as_break |-> counts_as_break, result |-> result,
     calls |-> hos_call.calls + 1]

InitHOS ==
    /\ hos_state \in {HOSState(0, 0, 0, 0, cycle, FALSE) : cycle \in CycleChoices}
    /\ hos_call = NoCall
    /\ view = NoRequest
    /\ legs = << >>
    /\ cycle_used_hours = hos_state.cycle_hours_used
    /\ start_time = NoStartTime
    /\ pc = "hos_rules"
    /\ leg_index = NotCalled.leg_index
    /\ miles_to_drive = NotCalled.miles_to_drive
    /\ leg_miles_driven = NotCalled.leg_miles_driven
    /\ current_time = NotCalled.current_time
    /\ current_miles = NotCalled.current_miles
    /\ schedule = NotCalled.schedule
    /\ twin = NotCalled
    /\ by_day = << >>

\* the variables no function of hos_rules touches
HOSUnchanged ==
    UNCHANGED <<legs, cycle_used_hours, start_time, pc, leg_index, miles_to_drive,
                leg_miles_driven, current_time, current_miles, schedule, twin,
                by_day, view>>

StartNewShift ==
    /\ pc = "hos_rules"
    /\ hos_call.calls < MaxHOSCalls
    /\ hos_state' = start_new_shift(hos_state)
    /\ hos_call' = HOSCall("start_new_shift", hos_state, 0, FALSE, hos_state')
    /\ HOSUnchanged

AddDrivingTime ==
    /\ pc = "hos_rules"
    /\ hos_call.calls < MaxHOSCalls
    /\ \E hours \in HOSHourChoices :
          /\ hos_state' = add_driving_time(hos_state, hours)
          /\ hos_call' = HOSCall("add_driving_time", hos_state, hours, FALSE, hos_state')
    /\ HOSUnchanged

AddOnDutyTime ==
    /\ pc = "hos_rules"
    /\ hos_call.calls < MaxHOSCalls
    /\ \E hours \in HOSHourChoices, counts_as_break \in BOOLEAN :
          /\ hos_state' = add_on_duty_time(hos_state, hours, counts_as_break)
          /\ hos_call' = HOSCall("add_on_duty_time", hos_state, hours, counts_as_break,
                                 hos_state')
    /\ HOSUnchanged

AddOffDutyTime ==
    /\ pc = "hos_rules"
    /\ hos_call.calls < MaxHOSCalls
    /\ \E hours \in HOSHourChoices :
          /\ hos_state' = add_off_duty_time(hos_state, hours)
          /\ hos_call' = HOSCall("add_off_duty_time", hos_state, hours, FALSE, hos_state')
    /\ HOSUnchanged

NextHOS ==
    \/ StartNewShift
    \/ AddDrivingTime
    \/ AddOnDutyTime
    \/ AddOffDutyTime

SpecHOS == InitHOS /\ [][NextHOS]_vars

(***************************************************************************)
(* Reading a call of a function of hos_rules                               *)
(***************************************************************************)
HourFields ==
    {"driving_hours_in_shift", "on_duty_hours_in_shift", "duty_window_hours",
     "driving_since_last_break", "cycle_hours_used"}

\* the call was made on a state without a shift by a function that starts one
StartsShift ==
    \/ hos_call.op = "start_new_shift"
    \/ /\ hos_call.op \in {"add_driving_time", "add_on_duty_time"}
       /\ ~hos_call.state.shift_active

TenHourReset ==
    hos_call.op = "add_off_duty_time" /\ hos_call.hours >= OFF_DUTY_RESET_HOURS

\* off-duty time of any length, or on-duty time of 30 minutes that counts
ZeroingBreak ==
    \/ hos_call.op = "add_off_duty_time"
    \/ /\ hos_call.op = "add_on_duty_time"
       /\ hos_call.counts_as_break
       /\ 60 * hos_call.hours >= BREAK_DURATION_MINUTES * HOUR

\* C22: over every sequence of calls of start_new_shift, add_driving_time,
\* add_on_duty_time and add_off_duty_time with hours >= 0, cycle_hours_used
\* never decreases and every hour field stays >= 0; the counters of the shift
\* decrease only by the start of a shift or a 10-hour reset, and the hours
\* driven since the last break also by a break that sets them to 0.
C22_CountersDecreaseOnlyByReset ==
    (hos_call.op # "none") =>
        LET before == hos_call.state
            after == hos_call.result
        IN  /\ after = hos_state
            /\ after.cycle_hours_used >= before.cycle_hours_used
            /\ \A f \in HourFields : after[f] >= 0
            /\ \A f \in {"driving_hours_in_shift", "on_duty_hours_in_shift",
                         "duty_window_hours"} :
                  (after[f] < before[f]) => (StartsShift \/ TenHourReset)
            /\ (after.driving_since_last_break < before.driving_since_last_break) =>
                  \/ StartsShift
                  \/ TenHourReset
                  \/ (ZeroingBreak /\ after.driving_since_last_break = 0)

\* a short off-duty period has set the hours driven since the last break to
\* 0 while the driving hours of the shift stay
C22_Witness ==
    /\ hos_call.op = "add_off_duty_time"
    /\ hos_call.hours < OFF_DUTY_RESET_HOURS
    /\ hos_call.state.driving_since_last_break > 0
    /\ hos_call.result.driving_since_last_break = 0
    /\ hos_call.result.driving_hours_in_shift > 0

\* the four budgets of a state
Budgets(s) ==
    {driving_hours_remaining(s), duty_window_remaining(s), cycle_hours_remaining(s),
     hours_until_break_required(s)}

\* C24: get_max_continuous_driving_hours is the least of the four budgets,
\* not below 0, and it is 0 exactly when one of the four budgets is used up.
C24_MaxIsLeastBudget ==
    (pc = "hos_rules") =>
        LET m == get_max_continuous_driving_hours(hos_state)
            least == CHOOSE b \in Budgets(hos_state) :
                         \A c \in Budgets(hos_state) : b <= c
        IN  /\ m = Max(0, least)
            /\ (m = 0) <=> (\E b \in Budgets(hos_state) : b <= 0)

\* after driving, the break's budget alone is used up
C24_Witness ==
    /\ pc = "hos_rules"
    /\ hos_call.op = "add_driving_time"
    /\ get_max_continuous_driving_hours(hos_state) = 0
    /\ hours_until_break_required(hos_state) = 0
    /\ driving_hours_remaining(hos_state) > 0
    /\ duty_window_remaining(hos_state) > 0
    /\ cycle_hours_remaining(hos_state) > 0

\* C25: add_off_duty_time with hours >= 10 gives a state with every counter
\* of the shift at 0, no active shift and the cycle unchanged; with fewer
\* hours only duty_window_hours grows by hours, driving_since_last_break
\* becomes 0, and the driving and on-duty hours of the shift, the cycle and
\* shift_active are unchanged.
C25_OffDutyContract ==
    (hos_call.op = "add_off_duty_time") =>
        LET before == hos_call.state
            after == hos_call.result
            hours == hos_call.hours
        IN  IF hours >= 10 * HOUR
            THEN /\ after.driving_hours_in_shift = 0
                 /\ after.on_duty_hours_in_shift = 0
                 /\ after.duty_window_hours = 0
                 /\ after.driving_since_last_break = 0
                 /\ ~after.shift_active
                 /\ after.cycle_hours_used = before.cycle_hours_used
            ELSE /\ after.duty_window_hours = before.duty_window_hours + hours
                 /\ after.driving_since_last_break = 0
                 /\ after.driving_hours_in_shift = before.driving_hours_in_shift
                 /\ after.on_duty_hours_in_shift = before.on_duty_hours_in_shift
                 /\ after.cycle_hours_used = before.cycle_hours_used
                 /\ after.shift_active = before.shift_active

\* a short off-duty period was added to a shift with hours driven
C25_Witness ==
    /\ hos_call.op = "add_off_duty_time"
    /\ hos_call.hours > 0
    /\ hos_call.hours < 10 * HOUR
    /\ hos_call.state.shift_active
    /\ hos_call.state.driving_since_last_break > 0
    /\ hos_call.state.duty_window_hours > 0

\* C26: add_on_duty_time on an active shift adds hours to the on-duty hours,
\* the duty window and the cycle and leaves the driving hours of the shift;
\* driving_since_last_break becomes 0 if and only if counts_as_break is true
\* and hours >= 0.5, and is unchanged otherwise.
C26_OnDutyContract ==
    (hos_call.op = "add_on_duty_time" /\ hos_call.state.shift_active) =>
        LET before == hos_call.state
            after == hos_call.result
            hours == hos_call.hours
        IN  /\ after.on_duty_hours_in_shift = before.on_duty_hours_in_shift + hours
            /\ after.duty_window_hours = before.duty_window_hours + hours
            /\ after.cycle_hours_used = before.cycle_hours_used + hours
            /\ after.driving_hours_in_shift = before.driving_hours_in_shift
            /\ after.shift_active
            /\ after.driving_since_last_break =
                  IF hos_call.counts_as_break /\ 2 * hours >= HOUR
                  THEN 0 ELSE before.driving_since_last_break

\* on-duty time of less than half an hour that counts as a break was added
\* to a shift with hours driven
C26_Witness ==
    /\ hos_call.op = "add_on_duty_time"
    /\ hos_call.state.shift_active
    /\ hos_call.counts_as_break
    /\ hos_call.hours > 0
    /\ 2 * hos_call.hours < HOUR
    /\ hos_call.state.driving_since_last_break > 0

\* C27: add_driving_time on an active shift gives a state whose driving,
\* on-duty, duty-window, since-last-break and cycle hours are each the
\* input's plus hours, with an active shift.
C27_DrivingContract ==
    (hos_call.op = "add_driving_time" /\ hos_call.state.shift_active) =>
        LET before == hos_call.state
            after == hos_call.result
        IN  /\ \A f \in HourFields : after[f] = before[f] + hos_call.hours
            /\ after.shift_active

\* driving time was added to a shift in which a break was taken after
\* driving
C27_Witness ==
    /\ hos_call.op = "add_driving_time"
    /\ hos_call.state.shift_active
    /\ hos_call.hours > 0
    /\ hos_call.state.driving_hours_in_shift > hos_call.state.driving_since_last_break

\* the result of the same call made on start_new_shift(state)
OnNewShift ==
    LET shift == start_new_shift(hos_call.state)
    IN  IF hos_call.op = "add_driving_time"
        THEN add_driving_time(shift, hos_call.hours)
        ELSE IF hos_call.op = "add_on_duty_time"
        THEN add_on_duty_time(shift, hos_call.hours, hos_call.counts_as_break)
        ELSE add_off_duty_time(shift, hos_call.hours)

\* C28: each of add_driving_time, add_on_duty_time and add_off_duty_time
\* applied to a state without an active shift gives what it gives applied to
\* start_new_shift(state).
C28_EveryActivityStartsShift ==
    (/\ hos_call.op \in {"add_driving_time", "add_on_duty_time", "add_off_duty_time"}
     /\ ~hos_call.state.shift_active) =>
        hos_call.result = OnNewShift

\* C28 as the code has it: add_driving_time and add_on_duty_time applied to
\* a state without an active shift give what they give applied to
\* start_new_shift(state), the counters of the shift counting from 0 and the
\* cycle kept; add_off_duty_time starts no shift.
C28_DutyActivityStartsShift ==
    (hos_call.op # "none" /\ ~hos_call.state.shift_active) =>
        LET before == hos_call.state
            after == hos_call.result
            hours == hos_call.hours
        IN  /\ (hos_call.op \in {"add_driving_time", "add_on_duty_time"}) =>
                  /\ after = OnNewShift
                  /\ after.shift_active
                  /\ after.on_duty_hours_in_shift = hours
                  /\ after.duty_window_hours = hours
                  /\ after.driving_hours_in_shift =
                        IF hos_call.op = "add_driving_time" THEN hours ELSE 0
                  /\ after.cycle_hours_used = before.cycle_hours_used + hours
            /\ (hos_call.op = "add_off_duty_time") =>
                  /\ ~after.shift_active
                  /\ (hours < OFF_DUTY_RESET_HOURS) =>
                        after.duty_window_hours = before.duty_window_hours + hours

\* on-duty time was added to a state without a shift whose duty window had
\* counted off-duty time
C28_Witness ==
    /\ hos_call.op = "add_on_duty_time"
    /\ ~hos_call.state.shift_active
    /\ hos_call.state.duty_window_hours > 0
    /\ hos_call.hours > 0

StopsOfType(stop_type) == {i \in 1 .. Len(stops) : stops[i].stop_type = stop_type}

EventsWithNote(note) == {i \in 1 .. Len(events) : events[i].note = note}

\* the run has returned its schedule
Completed == pc \in {"done", "by_day"}

\* C23: every completed schedule has exactly one PICKUP stop and exactly one
\* DROPOFF stop; the PICKUP is appended when the whole of leg 1 has been
\* driven, at the mile of leg 1's end, and before any driving of leg 2; the
\* DROPOFF is the last event and the last stop, at the mile of the trip's
\* end.
C23_OnePickupOneDropoff ==
    /\ Cardinality(StopsOfType("PICKUP")) <= 1
    /\ Cardinality(StopsOfType("DROPOFF")) <= 1
    /\ Cardinality(EventsWithNote("Pickup - Loading")) = Cardinality(StopsOfType("PICKUP"))
    /\ Cardinality(EventsWithNote("Dropoff - Unloading")) = Cardinality(StopsOfType("DROPOFF"))
    /\ \A p \in EventsWithNote("Pickup - Loading") :
          /\ events[p].miles_start = legs[1]
          /\ \A i \in StopsOfType("PICKUP") : stops[i].mile_marker = legs[1]
          /\ \A i \in 1 .. Len(events) :
                IsDriving(events[i]) =>
                    IF i < p THEN events[i].miles_end <= legs[1]
                    ELSE events[i].miles_start >= legs[1]
          /\ legs[1] > 0 =>
                \E i \in 1 .. (p - 1) :
                    IsDriving(events[i]) /\ events[i].miles_end = legs[1]
    /\ (leg_index = 2 /\ pc = "loop") => Cardinality(StopsOfType("PICKUP")) = 1
    /\ \A d \in EventsWithNote("Dropoff - Unloading") :
          /\ d = Len(events)
          /\ events[d].miles_end = legs[1] + legs[2]
          /\ stops[Len(stops)].stop_type = "DROPOFF"
          /\ stops[Len(stops)].mile_marker = legs[1] + legs[2]
    /\ Completed =>
          /\ Cardinality(StopsOfType("PICKUP")) = 1
          /\ Cardinality(StopsOfType("DROPOFF")) = 1
          /\ schedule.total_miles = legs[1] + legs[2]

\* a returned schedule with driving on both legs and a fuel stop, a rest
\* break and a reset among its stops
C23_Witness ==
    /\ Completed
    /\ legs[1] > 0
    /\ legs[2] > 0
    /\ StopsOfType("FUEL") # {}
    /\ StopsOfType("REST_BREAK") # {}
    /\ StopsOfType("OFF_DUTY") # {}

\* the drive loop is at an iteration whose segment is 0
ZeroSegmentIteration ==
    /\ pc = "loop"
    /\ miles_to_drive > 0
    /\ miles_this_segment(miles_to_drive, hos_state, current_miles) <= 0

\* one of the tests of the branch that cannot drive holds, so the branch
\* appends a stop
SomeBudgetUsedUp ==
    \/ hos_state.driving_since_last_break >= BREAK_REQUIRED_AFTER_HOURS
    \/ hos_state.duty_window_hours >= MAX_DUTY_WINDOW_HOURS
    \/ hos_state.driving_hours_in_shift >= MAX_DRIVING_HOURS
    \/ hos_state.cycle_hours_used >= CYCLE_LIMIT_HOURS

\* C29: an iteration of the drive loop whose segment is 0 appends exactly
\* one stop and its one event, a REST_BREAK when a break is needed and an
\* OFF_DUTY reset otherwise, at the mile the truck is at, and leaves the
\* cumulative miles, the leg's remaining distance, total_driving_hours and
\* total_on_duty_hours as they are.
C29_OneComplianceAction ==
    /\ [](ZeroSegmentIteration => SomeBudgetUsedUp)
    /\ [][ZeroSegmentIteration =>
             /\ Len(schedule'.events) = Len(events) + 1
             /\ Len(schedule'.stops) = Len(stops) + 1
             /\ SubSeq(schedule'.events, 1, Len(events)) = events
             /\ SubSeq(schedule'.stops, 1, Len(stops)) = stops
             /\ LET e == schedule'.events[Len(events) + 1]
                    s == schedule'.stops[Len(stops) + 1]
                IN  /\ e.status = "OFF_DUTY"
                    /\ e.miles_start = current_miles
                    /\ e.miles_end = current_miles
                    /\ e.start_time = current_time
                    /\ s.mile_marker = current_miles
                    /\ IF needs_30_min_break(hos_state)
                       THEN /\ s.stop_type = "REST_BREAK"
                            /\ e.note = NoteOfStopType("REST_BREAK")
                       ELSE /\ s.stop_type = "OFF_DUTY"
                            /\ IsReset(e)
             /\ current_miles' = current_miles
             /\ miles_to_drive' = miles_to_drive
             /\ leg_miles_driven' = leg_miles_driven
             /\ leg_index' = leg_index
             /\ schedule'.total_driving_hours = schedule.total_driving_hours
             /\ schedule'.total_on_duty_hours = schedule.total_on_duty_hours
         ]_vars

\* the second leg began with the shift's driving hours used up: the reset
\* of an iteration that could not drive follows the pickup
C29_Witness ==
    \E i \in 2 .. Len(events) :
        /\ IsReset(events[i])
        /\ events[i - 1].note = "Pickup - Loading"
        /\ events[i].miles_start > 0

\* the least of a set of numbers
Least(S) == CHOOSE x \in S : \A y \in S : x <= y

\* a step of the drive loop that appends a DRIVING event
DrivingAppended ==
    /\ pc = "loop"
    /\ miles_to_drive > 0
    /\ Len(schedule'.events) > Len(events)
    /\ IsDriving(schedule'.events[Len(events) + 1])

\* the end of the leg a DRIVING event belongs to, in cumulative miles
LegEndOf(e) == IF e.note = "Driving to Pickup" THEN legs[1] ELSE legs[1] + legs[2]

\* C30: every DRIVING event covers exactly the least of the leg's remaining
\* miles, the miles of the maximum continuous driving time at 55 mph and the
\* miles to the next multiple of 1000, of the state it starts in; so no
\* DRIVING event goes past a multiple of 1000 cumulative miles, past the end
\* of its leg, or beyond the driving time allowed without a break.
C30_DrivingEventIsTheLeastLimit ==
    /\ [][DrivingAppended =>
             LET e == schedule'.events[Len(events) + 1]
                 max_hours ==
                     Least({MAX_DRIVING_HOURS - hos_state.driving_hours_in_shift,
                            MAX_DUTY_WINDOW_HOURS - hos_state.duty_window_hours,
                            CYCLE_LIMIT_HOURS - hos_state.cycle_hours_used,
                            BREAK_REQUIRED_AFTER_HOURS
                                - hos_state.driving_since_last_break})
                 to_boundary ==
                     FUEL_STOP_INTERVAL_MILES
                         - (current_miles % FUEL_STOP_INTERVAL_MILES)
             IN  /\ e.miles_start = current_miles
                 /\ e.miles_end - e.miles_start =
                       Least({miles_to_drive,
                              (max_hours * AVG_SPEED_MPH * MILE) \div HOUR,
                              to_boundary})
                 /\ e.miles_end > e.miles_start
                 /\ (e.end_time - e.start_time) * TICK <= max_hours + TICK \div 2
         ]_vars
    /\ [](\A i \in 1 .. Len(events) :
             IsDriving(events[i]) =>
                 LET e == events[i]
                 IN  /\ e.miles_end <= LegEndOf(e)
                     /\ e.miles_end <= ((e.miles_start \div FUEL_STOP_INTERVAL_MILES) + 1)
                                          * FUEL_STOP_INTERVAL_MILES
                     /\ DrivingHoursOf(e) <= BREAK_REQUIRED_AFTER_HOURS)

\* a DRIVING event that ends on mile 1000 with miles of its leg and hours of
\* its shift left: the boundary was the least limit
C30_Witness ==
    \E i \in 1 .. Len(events) :
        /\ IsDriving(events[i])
        /\ events[i].miles_end = FUEL_STOP_INTERVAL_MILES
        /\ events[i].miles_end < LegEndOf(events[i])
        /\ DrivingHoursOf(events[i]) > 0
        /\ i < Len(events)
        /\ events[i + 1].note = "Fuel Stop"
        /\ \E j \in 1 .. (i - 1) : IsReset(events[j])

\* a step of the drive loop that drives a segment
SegmentDriven ==
    /\ pc = "loop"
    /\ miles_to_drive > 0
    /\ miles_this_segment(miles_to_drive, hos_state, current_miles) > 0

\* the types of the stops a step appends, in their order
StopsAppended ==
    [i \in 1 .. (Len(schedule'.stops) - Len(stops)) |->
        schedule'.stops[Len(stops) + i].stop_type]

\* C31: after a DRIVING segment with distance remaining at most one stop is
\* inserted in the iteration: a FUEL stop, a REST_BREAK or an OFF_DUTY
\* reset; never a FUEL stop and a reset, nor a REST_BREAK and a reset.
C31_AtMostOneStopAfterSegment ==
    [][SegmentDriven =>
          \/ StopsAppended = << >>
          \/ /\ Len(StopsAppended) = 1
             /\ StopsAppended[1] \in {"FUEL", "REST_BREAK", "OFF_DUTY"}
             /\ miles_to_drive' > 0
      ]_vars

\* C32: every sub-event of get_schedule_by_day has start_time < end_time and
\* lies within the day of its key, whatever the time of day at which its
\* event starts or ends.
C32_SubEventsWithinTheirDay ==
    pc = "by_day" =>
        \A day \in DOMAIN by_day :
            \A k \in 1 .. Len(by_day[day]) :
                LET sub == by_day[day][k]
                IN  /\ sub.start_time < sub.end_time
                    /\ day * DAY <= sub.start_time
                    /\ sub.end_time <= (day + 1) * DAY

(***************************************************************************)
(* get_schedule_by_day on its own: a schedule of a DRIVING event and the   *)
(* stop that follows it, the first beginning at any of some times of day   *)
(* around midnight and noon, each of any of some lengths                   *)
(***************************************************************************)
\* the start of the first event: from the last but one second of a day to
\* the first second of the next, and noon
ByDayStartChoices ==
    {DAY - 2 * SECOND, DAY - SECOND - 1, DAY - SECOND, DAY - 1, DAY, DAY + 1,
     DAY + DAY \div 2}

\* the length of an event: below and above a second, an hour, a day and more
ByDayLengthChoices == {1, SECOND, SECOND + 1, (HOUR \div TICK), DAY, DAY + SECOND + 1}

InitByDay ==
    /\ \E start \in ByDayStartChoices, driven \in ByDayLengthChoices,
          stopped \in ByDayLengthChoices :
          schedule =
              [TripSchedule(start) EXCEPT
                  !.events = <<ScheduleEvent(start, start + driven, "DRIVING",
                                             "Driving to Pickup", "Mile", 0, driven * TICK),
                               ScheduleEvent(start + driven, start + driven + stopped,
                                             "ON_DUTY_NOT_DRIVING", "Pickup - Loading",
                                             "pickup_location", driven * TICK, driven * TICK)>>,
                  !.end_time = start + driven + stopped]
    /\ pc = "done"
    /\ by_day = << >>
    /\ legs = <<0, 0>>
    /\ cycle_used_hours = 0
    /\ start_time = schedule.start_time
    /\ leg_index = 2
    /\ miles_to_drive = 0
    /\ leg_miles_driven = 0
    /\ current_time = schedule.end_time
    /\ current_miles = 0
    /\ hos_state = HOSState(0, 0, 0, 0, 0, TRUE)
    /\ twin = NotCalled
    /\ view = NoRequest
    /\ hos_call = NoCall

SpecByDay == InitByDay /\ [][GetScheduleByDay]_vars

\* the events follow one another from the trip's start, and the returned
\* end_time is the end of the last
Contiguous ==
    /\ events # << >> => events[1].start_time = schedule.start_time
    /\ \A i \in 2 .. Len(events) : events[i].start_time = events[i - 1].end_time
    /\ events # << >> => current_time = LastEvent.end_time
    /\ events = << >> => current_time = schedule.start_time
    /\ Completed => schedule.end_time = current_time

\* the time elapsed since the trip's start, as float hours, less the on-duty
\* and off-duty totals
ElapsedLessTotals ==
    (current_time - schedule.start_time) * TICK
        - (schedule.total_on_duty_hours + schedule.total_off_duty_hours)

\* C33: the timeline has no gaps: the first event starts at the trip's
\* start_time, every later event starts when the one before it ends,
\* end_time is the end of the last event, and end_time - start_time equals
\* total_on_duty_hours + total_off_duty_hours.
C33_NoGapsAndTotalsExact ==
    /\ Contiguous
    /\ ElapsedLessTotals = 0

\* C33 as the code has it: the events are contiguous as stated, and the
\* elapsed time equals the sum of the two totals to within half a step of
\* the datetime resolution for each DRIVING event, whose end_time is rounded
\* to that resolution while the totals are not.
C33_NoGapsAndTotalsRounded ==
    /\ Contiguous
    /\ 2 * ElapsedLessTotals <= NumDriving * TICK
    /\ -2 * ElapsedLessTotals <= NumDriving * TICK

\* a returned schedule with a break and a reset whose elapsed time is not
\* the sum of the totals
C33_Witness ==
    /\ pc = "done"
    /\ StopsOfType("REST_BREAK") # {}
    /\ StopsOfType("OFF_DUTY") # {}
    /\ ElapsedLessTotals # 0

\* views.py:194, the summary's cycleHoursRemaining before it is rounded to
\* two decimals for the response
cycleHoursRemaining(cycle_used, sched) ==
    70 * HOUR - cycle_used - sched.total_on_duty_hours

\* C34: after every step of a run hos_state.cycle_hours_used is the initial
\* cycle_used_hours plus schedule.total_on_duty_hours, so the summary's
\* 70 - cycleUsedHours - totalOnDutyHours is 70 less the final
\* cycle_hours_used; a step that inserts an off-duty stop alone changes
\* neither.
C34_CycleIsInitialPlusOnDuty ==
    /\ [](pc \in {"loop", "return", "done", "by_day"} =>
             /\ hos_state.cycle_hours_used
                   = cycle_used_hours + schedule.total_on_duty_hours
             /\ cycleHoursRemaining(cycle_used_hours, schedule)
                   = 70 * HOUR - hos_state.cycle_hours_used)
    /\ [][ZeroSegmentIteration =>
             /\ hos_state'.cycle_hours_used = hos_state.cycle_hours_used
             /\ schedule'.total_on_duty_hours = schedule.total_on_duty_hours
             /\ schedule'.total_off_duty_hours > schedule.total_off_duty_hours
         ]_vars

\* a returned schedule of a driver who began with hours in the cycle, with
\* a fuel stop, a break and a reset
C34_Witness ==
    /\ pc = "done"
    /\ cycle_used_hours > 0
    /\ StopsOfType("FUEL") # {}
    /\ StopsOfType("REST_BREAK") # {}
    /\ StopsOfType("OFF_DUTY") # {}
    /\ schedule.total_on_duty_hours > schedule.total_driving_hours

\* the places of the DRIVING events, and the DRIVING event before a place
DrivingPlaces == {i \in 1 .. Len(events) : IsDriving(events[i])}

DrivingBefore(i) == {j \in DrivingPlaces : j < i}

\* the DRIVING events tile the route from mile 0, and a returned schedule
\* has the miles of the two legs
Tiling ==
    /\ \A i \in DrivingPlaces :
          IF DrivingBefore(i) = {}
          THEN events[i].miles_start = 0
          ELSE events[i].miles_start =
                  events[CHOOSE j \in DrivingBefore(i) :
                             \A k \in DrivingBefore(i) : k <= j].miles_end
    /\ Completed => schedule.total_miles = legs[1] + legs[2]

\* C35: a run that returns has total_miles = the sum of the two legs, its
\* DRIVING events tile the route from mile 0, and the duration of each
\* DRIVING event is (miles_end - miles_start) / 55 hours.
C35_TilingAndExactDurations ==
    /\ Tiling
    /\ \A i \in DrivingPlaces : duration_hours(events[i]) = DrivingHoursOf(events[i])

\* C35 as the code has it: the tiling and total_miles as stated, and the
\* duration of each DRIVING event within half a step of the datetime
\* resolution of (miles_end - miles_start) / 55 hours.
C35_TilingAndRoundedDurations ==
    /\ Tiling
    /\ \A i \in DrivingPlaces :
          LET diff == duration_hours(events[i]) - DrivingHoursOf(events[i])
          IN  2 * diff <= TICK /\ -2 * diff <= TICK

\* a returned schedule of three DRIVING events or more, one of them with a
\* rounded duration
C35_Witness ==
    /\ pc = "done"
    /\ Cardinality(DrivingPlaces) >= 3
    /\ legs[1] > 0
    /\ legs[2] > 0
    /\ \E i \in DrivingPlaces : duration_hours(events[i]) # DrivingHoursOf(events[i])

(***************************************************************************)
(* The run goes on: create_trip_schedule is sequential code, which takes   *)
(* its next step whenever it has one                                       *)
(***************************************************************************)
\* Leg.distance_miles of the runs followed to their end: 0, one hour, the
\* 11 hours of a shift, and a distance of two shifts
LiveLegChoices == {0, 55 * MILE, 605 * MILE, 1000 * MILE}

InitLive == InitOf(LiveLegChoices \X LiveLegChoices, CycleChoices, StartChoices)

SpecLive == InitLive /\ [][Next]_vars /\ WF_vars(Next)

\* the drive loop stands after a reset with hours left in the cycle
AfterResetWithCycleLeft ==
    /\ pc = "loop"
    /\ miles_to_drive > 0
    /\ events # << >>
    /\ IsReset(LastEvent)
    /\ hos_state.cycle_hours_used < CYCLE_LIMIT_HOURS

\* the cycle is used up while distance remains
CycleUsedUpOnTheWay ==
    /\ pc = "loop"
    /\ miles_to_drive > 0
    /\ hos_state.cycle_hours_used >= CYCLE_LIMIT_HOURS

\* C36: when the branch that cannot drive inserts a reset while
\* cycle_hours_used < 70, the next iteration of the loop appends a DRIVING
\* event of positive distance; so a run fails to return only by reaching
\* cycle_hours_used >= 70 while distance remains.
C36_ResetThenDriveOrCycleLimit ==
    /\ [][(ZeroSegmentIteration /\ hos_state.cycle_hours_used < CYCLE_LIMIT_HOURS) =>
             /\ IsReset(schedule'.events[Len(schedule'.events)])
             /\ SegmentDriven'
         ]_vars
    /\ [][AfterResetWithCycleLeft =>
             /\ Len(schedule'.events) > Len(events)
             /\ IsDriving(schedule'.events[Len(events) + 1])
             /\ schedule'.events[Len(events) + 1].miles_end
                   > schedule'.events[Len(events) + 1].miles_start
         ]_vars
    /\ <>(Completed \/ CycleUsedUpOnTheWay)

\* the second leg began with a reset of the branch that cannot drive, with
\* hours left in the cycle, and a DRIVING event follows it
C36_Witness ==
    \E i \in 2 .. (Len(events) - 1) :
        /\ IsReset(events[i])
        /\ events[i - 1].note = "Pickup - Loading"
        /\ IsDriving(events[i + 1])
        /\ events[i + 1].miles_end > events[i + 1].miles_start
        /\ cycle_used_hours > 0

\* driving_hours_in_shift at the tests a step of the loop makes before it
\* inserts a reset: after the segment, when the step drives one
DrivingHoursAtReset ==
    IF SegmentDriven
    THEN add_driving_time(hos_state,
             MilesToHours(miles_this_segment(miles_to_drive, hos_state,
                                             current_miles))).driving_hours_in_shift
    ELSE hos_state.driving_hours_in_shift

\* duty_window_hours at those tests: a reset is the last stop of a step, so
\* its event begins when the window has the hours the shift had before it
WindowHoursAtReset ==
    hos_state.duty_window_hours
        + (schedule'.events[Len(schedule'.events)].start_time - current_time) * TICK

\* a step of the drive loop that inserts a reset
ResetInserted ==
    /\ pc = "loop"
    /\ miles_to_drive > 0
    /\ Len(schedule'.events) > Len(events)
    /\ IsReset(schedule'.events[Len(schedule'.events)])

\* C37: for valid inputs the 14-hour window never binds: whenever the drive
\* loop evaluates the limits duty_window_remaining > driving_hours_remaining,
\* and every reset is inserted with driving_hours_in_shift = 11 or with the
\* cycle used up, never with the window alone used up.
C37_WindowNeverBinds ==
    /\ [](pc = "loop" /\ miles_to_drive > 0 =>
             duty_window_remaining(hos_state) > driving_hours_remaining(hos_state))
    /\ [][ResetInserted =>
             \/ DrivingHoursAtReset = MAX_DRIVING_HOURS
             \/ /\ hos_state.cycle_hours_used >= CYCLE_LIMIT_HOURS
                /\ WindowHoursAtReset < MAX_DUTY_WINDOW_HOURS
         ]_vars

\* the loop evaluates the limits in a shift whose stops have taken more than
\* an hour of the window, after a reset was inserted
C37_Witness ==
    /\ pc = "loop"
    /\ miles_to_drive > 0
    /\ hos_state.driving_hours_in_shift > 0
    /\ hos_state.duty_window_hours > hos_state.driving_hours_in_shift + HOUR
    /\ \E i \in 1 .. Len(events) : IsReset(events[i])

IsRestBreak(e) == e.status = "OFF_DUTY" /\ e.note = "30-min Rest Break (8hr rule)"

\* the events a step appends, in their order
EventsAppended ==
    [i \in 1 .. (Len(schedule'.events) - Len(events)) |->
        schedule'.events[Len(events) + i]]

\* driving_since_last_break after the segment a step of the loop drives
SinceBreakAfterSegment ==
    add_driving_time(hos_state,
        MilesToHours(miles_this_segment(miles_to_drive, hos_state,
                                        current_miles))).driving_since_last_break

\* C38: at the top of every iteration of the drive loop needs_30_min_break is
\* false, so the branch that cannot drive never inserts a REST_BREAK: every
\* rest break directly follows, in the same iteration, a DRIVING event that
\* brought driving_since_last_break to exactly 8 hours with distance of the
\* leg remaining.
C38_RestBreakOnlyAfterEightHours ==
    /\ [](pc = "loop" /\ miles_to_drive > 0 => ~needs_30_min_break(hos_state))
    /\ [][\A i \in 1 .. Len(EventsAppended) :
             IsRestBreak(EventsAppended[i]) =>
                 /\ SegmentDriven
                 /\ i = 2
                 /\ IsDriving(EventsAppended[1])
                 /\ SinceBreakAfterSegment = BREAK_REQUIRED_AFTER_HOURS
                 /\ miles_to_drive' > 0
         ]_vars
    /\ [](\A i \in 1 .. Len(events) :
             IsRestBreak(events[i]) => i > 1 /\ IsDriving(events[i - 1]))

\* a rest break was inserted in a leg that began with hours already driven
\* since the last break: the pickup ended them, and 8 hours of the second
\* leg brought the break
C38_Witness ==
    \E i \in 4 .. Len(events) :
        /\ IsRestBreak(events[i])
        /\ IsDriving(events[1])
        /\ events[2].note = "Pickup - Loading"
        /\ events[i - 1].miles_end - events[3].miles_start
              = HoursToMiles(BREAK_REQUIRED_AFTER_HOURS)

\* the limits that end the driving of a state: 11 hours of driving, the
\* 14-hour window, the 70-hour cycle, 8 hours since the last break
LimitsReached(s) ==
    {l \in {"driving", "window", "cycle", "break"} :
        \/ l = "driving" /\ s.driving_hours_in_shift >= MAX_DRIVING_HOURS
        \/ l = "window" /\ s.duty_window_hours >= MAX_DUTY_WINDOW_HOURS
        \/ l = "cycle" /\ s.cycle_hours_used >= CYCLE_LIMIT_HOURS
        \/ l = "break" /\ s.driving_since_last_break >= BREAK_REQUIRED_AFTER_HOURS}

\* C39: for every HOSState whose counters are not negative, can_drive is
\* true if and only if get_max_continuous_driving_hours() > 0.
C39_CanDriveIffHoursLeft ==
    (\A f \in HourFields : hos_state[f] >= 0) =>
        (can_drive(hos_state) <=> get_max_continuous_driving_hours(hos_state) > 0)

\* calls have led to a state that cannot drive for the break alone: the one
\* limit can_drive tests by needs_30_min_break and not by the hours left
C39_Witness ==
    /\ hos_call.calls > 0
    /\ LimitsReached(hos_state) = {"break"}
    /\ ~can_drive(hos_state)

====
